---- MODULE Spec2Model ----
(***************************************************************************)
(* A model of the GMSA admission webhook (webhook.go).  The source holds  *)
(* two revisions of the webhook:                                          *)
(*   - the two-endpoint revision (webhook.go lines 1-388), serving        *)
(*     "/mutate" and "/validate" through a kubeClientInterface;           *)
(*   - the single-endpoint revision (webhook.go lines 390-808), serving   *)
(*     "/validate-mutate" with the core and dynamic clients.              *)
(* Both are modelled; the endpoint of a request selects the revision.     *)
(*                                                                         *)
(* Strings are sequences of tokens.  A token is one character, or a run   *)
(* of characters none of which is "/" or "~" and which is never split.    *)
(* Error texts that the code slices by byte index are sequences of single *)
(* characters.                                                            *)
(***************************************************************************)
EXTENDS Integers, Sequences, FiniteSets, TLC

VARIABLES
    pc,        \* where the handling of the request in flight stands
    endpoint,  \* the URL path the request was posted to
    req,       \* the admission request in flight
    idx,       \* the annotation pair the Create handler visits next
    patches,   \* the patches accumulated by the Create handler
    err,       \* the podAdmissionError of the handler, if any
    calls,     \* the calls made to the cluster for this request, in order
    outcome,   \* the AdmissionResponse returned by the handler, if any
    response,  \* the AdmissionResponse sent back
    stored,    \* the pod persisted by the API server, if any
    written,   \* the contents annotations patched into the stored pod
    other,     \* the request of a second goroutine of the server, not running
    server,    \* webhook.server: 0 for nil, or the number of an http.Server
    servers,   \* the http.Servers created so far, each with its state
    callers    \* the goroutines that call start and stop

vars == <<pc, endpoint, req, idx, patches, err, calls, outcome, response,
          stored, written, other, server, servers, callers>>

(***************************************************************************)
(* Bounds of the model.                                                    *)
(***************************************************************************)
\* the longest container list of a pod
MaxContainers == 1

\* the longest container name, in characters, of the pods whose annotation
\* keys are escaped and decoded
MaxKeyLen == 3

\* the goroutines that call start and stop on one webhook
MaxCallers == 3

Callers == 1..MaxCallers

(***************************************************************************)
(* Program constants.                                                      *)
(***************************************************************************)
StatusBadRequest == 400
StatusForbidden == 403
StatusNotFound == 404
StatusExpectationFailed == 417
StatusInternalServerError == 500

EmptyString == << >>

gMSAContainerSpecContentsAnnotationKeySuffix ==
    <<".container.alpha.windows.kubernetes.io", "/", "gmsa-credential-spec">>

gMSAPodSpecContentsAnnotationKey ==
    <<"pod.alpha.windows.kubernetes.io", "/", "gmsa-credential-spec">>

gMSAContainerSpecNameAnnotationKeySuffix ==
    gMSAContainerSpecContentsAnnotationKeySuffix \o <<"-name">>

gMSAPodSpecNameAnnotationKey == gMSAPodSpecContentsAnnotationKey \o <<"-name">>

crdContentsField == <<"credspec">>

notFound == <<"n", "o", "t", " ", "f", "o", "u", "n", "d">>

(***************************************************************************)
(* Helpers on strings and maps.                                            *)
(***************************************************************************)
\* Go's map read m[key]: the zero value "" when the key is absent
MapGet(m, key) == IF key \in DOMAIN m THEN m[key] ELSE EmptyString

\* strings.Contains on token sequences
Contains(s, sub) ==
    \E i \in 0..(Len(s) - Len(sub)) : SubSeq(s, i + 1, i + Len(sub)) = sub

RECURSIVE Flatten(_)
Flatten(ss) == IF ss = << >> THEN << >> ELSE Head(ss) \o Flatten(Tail(ss))

\* strings.NewReplacer("~", "~0", "/", "~1").Replace, token by token
jsonPatchEscapeToken(t) ==
    IF t = "~" THEN <<"~", "0">> ELSE IF t = "/" THEN <<"~", "1">> ELSE <<t>>

\* only "/" is replaced
jsonPatchEscaper_SlashOnly(s) ==
    Flatten([i \in 1..Len(s) |-> IF s[i] = "/" THEN <<"~", "1">> ELSE <<s[i]>>])

jsonPatchEscaper(s) == Flatten([i \in 1..Len(s) |-> jsonPatchEscapeToken(s[i])])

(***************************************************************************)
(* The data of a request.                                                  *)
(***************************************************************************)
\* the container names of the model's pods, in the order pods list them
ContainerNamePool == <<<<"nginx0">>, <<"nginx1">>, <<"nginx2">>>>

\* the container lists: no container, the first names of the pool, and one
\* list that names the same container twice
ContainerLists ==
    {SubSeq(ContainerNamePool, 1, n) : n \in 0..MaxContainers}
        \cup {[i \in 1..n |-> ContainerNamePool[1]] : n \in 2..MaxContainers}

RefNames == {<<"spec1">>, <<"spec2">>}

SpecXml == <<"<", "spec-xml/", ">">>

ServiceAccount == <<"sa1">>

RequestNamespace == <<"ns1">>

RequestUID == <<"uid-1">>

\* the pod-level pair is visited after the containers
iterateOverGMSAAnnotationPairs_PodLast(containers) ==
    [i \in 1..Len(containers) |->
        [nameKey |-> containers[i] \o gMSAContainerSpecNameAnnotationKeySuffix,
         contentsKey |-> containers[i] \o gMSAContainerSpecContentsAnnotationKeySuffix]]
    \o <<[nameKey |-> gMSAPodSpecNameAnnotationKey,
          contentsKey |-> gMSAPodSpecContentsAnnotationKey]>>

\* the pod-level pair is not visited
iterateOverGMSAAnnotationPairs_ContainersOnly(containers) ==
    [i \in 1..Len(containers) |->
        [nameKey |-> containers[i] \o gMSAContainerSpecNameAnnotationKeySuffix,
         contentsKey |-> containers[i] \o gMSAContainerSpecContentsAnnotationKeySuffix]]

\* iterateOverGMSAAnnotationPairs: the pod-level pair, then one pair per
\* container in the order of pod.Spec.Containers
iterateOverGMSAAnnotationPairs(containers) ==
    <<[nameKey |-> gMSAPodSpecNameAnnotationKey,
       contentsKey |-> gMSAPodSpecContentsAnnotationKey]>>
    \o [i \in 1..Len(containers) |->
          [nameKey |-> containers[i] \o gMSAContainerSpecNameAnnotationKeySuffix,
           contentsKey |-> containers[i] \o gMSAContainerSpecContentsAnnotationKeySuffix]]

NameKeys(containers) ==
    LET pairs == iterateOverGMSAAnnotationPairs(containers)
    IN  {pairs[i].nameKey : i \in 1..Len(pairs)}

ContentsKeys(containers) ==
    LET pairs == iterateOverGMSAAnnotationPairs(containers)
    IN  {pairs[i].contentsKey : i \in 1..Len(pairs)}

TrackedKeys(containers) == NameKeys(containers) \cup ContentsKeys(containers)

\* the annotation maps over the tracked keys: every key is absent or holds a
\* value of its kind
AnnotationMaps(containers, nameValues, contentValues) ==
    UNION {{m \in [D -> nameValues \cup contentValues] :
               \A k \in D : m[k] \in (IF k \in NameKeys(containers)
                                        THEN nameValues ELSE contentValues)} :
           D \in SUBSET TrackedKeys(containers)}

MakePod(containers, annotations, namespace) ==
    [containers |-> containers, annotations |-> annotations,
     serviceAccountName |-> ServiceAccount, namespace |-> namespace]

\* the pods of Create requests
CreatePods ==
    UNION {{MakePod(cs, m, ns) :
               m \in AnnotationMaps(cs, {EmptyString} \cup RefNames,
                                    {EmptyString, SpecXml}),
               ns \in {EmptyString, RequestNamespace}} :
           cs \in ContainerLists}

\* what json.Unmarshal leaves in a pod it could not decode, or never decoded
NoPod == MakePod(<< >>, << >>, EmptyString)

(***************************************************************************)
(* The answers of the cluster: the access review and the stored spec.      *)
(***************************************************************************)
ErrConnReset == <<"c", "o", "n", "n", " ", "r", "e", "s", "e", "t">>

ErrEOF == <<"E", "O", "F">>

ErrSpecNotFound == <<"x", " ">> \o notFound

\* LocalSubjectAccessReviews(...).Create: a transport failure, or a status
SarAnswers ==
    {[failed |-> FALSE, msg |-> EmptyString, allowed |-> TRUE, denied |-> FALSE,
      reason |-> EmptyString],
     [failed |-> FALSE, msg |-> EmptyString, allowed |-> FALSE, denied |-> FALSE,
      reason |-> EmptyString],
     [failed |-> FALSE, msg |-> EmptyString, allowed |-> TRUE, denied |-> TRUE,
      reason |-> <<"RBAC: denied">>],
     [failed |-> TRUE, msg |-> ErrConnReset, allowed |-> FALSE, denied |-> FALSE,
      reason |-> EmptyString]}

\* a value of the untyped credSpec.Object map: a JSON string or a JSON object,
\* the object given by its compact JSON text
JsonString(text) == [type |-> "string", text |-> text]

JsonObject(text) == [type |-> "object", text |-> text]

NoValue == JsonString(EmptyString)

\* dynamicClient.Resource(...).Get: a failure with its error text, or the
\* stored object with or without its credspec field
GetAnswers ==
    {[failed |-> FALSE, msg |-> EmptyString, present |-> TRUE,
      contents |-> JsonString(SpecXml)],
     [failed |-> FALSE, msg |-> EmptyString, present |-> TRUE,
      contents |-> JsonObject(<<"{", "\"CmsPlugins\":[]", "}">>)],
     [failed |-> FALSE, msg |-> EmptyString, present |-> TRUE,
      contents |-> JsonString(EmptyString)],
     [failed |-> FALSE, msg |-> EmptyString, present |-> FALSE,
      contents |-> NoValue],
     [failed |-> TRUE, msg |-> ErrSpecNotFound, present |-> FALSE,
      contents |-> NoValue],
     [failed |-> TRUE, msg |-> ErrConnReset, present |-> FALSE,
      contents |-> NoValue],
     [failed |-> TRUE, msg |-> ErrEOF, present |-> FALSE,
      contents |-> NoValue]}

\* json.Marshal of a string escapes "<" and ">" and wraps the text in quotes;
\* of an object it writes the compact text
jsonEscapeToken(t) ==
    IF t = "<" THEN "\\u003c" ELSE IF t = ">" THEN "\\u003e" ELSE t

jsonMarshal(value) ==
    IF value.type = "string"
    THEN <<"\"">> \o [i \in 1..Len(value.text) |-> jsonEscapeToken(value.text[i])]
                  \o <<"\"">>
    ELSE value.text

(***************************************************************************)
(* podAdmissionError, and the result of one step of a handler: the patches *)
(* and the error so far, the calls made to the cluster, and whether the    *)
(* step panicked.                                                          *)
(***************************************************************************)
NoError == [set |-> FALSE, code |-> 0, msg |-> EmptyString, pair |-> 0]

\* &podAdmissionError{error: ..., code: ...}; pair is the annotation pair whose
\* processing built the error (0: none)
podAdmissionError(msg, code, pair) ==
    [set |-> TRUE, code |-> code, msg |-> msg, pair |-> pair]

\* what the store answered to a Get: the spec with usable contents, no such
\* spec, a spec without usable contents, or any other failure
GetKind(get) ==
    IF get.failed
    THEN IF get.msg = ErrSpecNotFound THEN "notfound" ELSE "error"
    ELSE IF ~get.present \/ get.contents.text = EmptyString THEN "nofield"
    ELSE "ok"

\* a call to the access review: its arguments and what the review answered
\* (allowed and not denied), its reason, and its failure text if it failed
GateCall(pair, serviceAccount, namespace, credSpecName, sar) ==
    [kind |-> "gate", pair |-> pair, serviceAccount |-> serviceAccount,
     namespace |-> namespace, credSpecName |-> credSpecName,
     ok |-> ~sar.failed /\ sar.allowed /\ ~sar.denied,
     reason |-> IF sar.failed THEN EmptyString ELSE sar.reason,
     failure |-> IF sar.failed THEN sar.msg ELSE EmptyString,
     answer |-> "", contents |-> EmptyString, value |-> EmptyString]

\* a call to the store: its argument, what the store answered, the contents
\* the store holds, and the string the handler made of them
StoreCall(pair, credSpecName, get, value) ==
    [kind |-> "store", pair |-> pair, serviceAccount |-> EmptyString,
     namespace |-> EmptyString, credSpecName |-> credSpecName,
     ok |-> GetKind(get) = "ok", reason |-> EmptyString,
     failure |-> IF get.failed THEN get.msg ELSE EmptyString,
     answer |-> GetKind(get),
     contents |-> IF GetKind(get) = "ok" THEN get.contents.text ELSE EmptyString,
     value |-> value]

StepResult(p, e, c, panicked) ==
    [patches |-> p, err |-> e, calls |-> c, panicked |-> panicked]

\* _, present := pod.Annotations[contentsKey]; present
ContentsPreset_ValueTested(pod, contentsKey) ==
    MapGet(pod.annotations, contentsKey) # EmptyString

\* the contents key counts as pre-set only when its pair has no reference name
ContentsPreset_OnlyUnnamed(pod, contentsKey) ==
    /\ contentsKey \in DOMAIN pod.annotations
    /\ MapGet(pod.annotations, contentsKey \o <<"-name">>) = EmptyString

ContentsPreset(pod, contentsKey) == contentsKey \in DOMAIN pod.annotations

\* credSpecName, present := pod.Annotations[nameKey]; !present || credSpecName == ""
NoCredSpecRequested_PresenceOnly(pod, nameKey) ==
    nameKey \notin DOMAIN pod.annotations

NoCredSpecRequested(pod, nameKey) ==
    nameKey \notin DOMAIN pod.annotations \/ pod.annotations[nameKey] = EmptyString

PresetContentsMsg(contentsKey) ==
    <<"cannot pre-set a pod's gMSA content annotation (annotation ">>
        \o contentsKey \o <<" present)">>

ReasonSuffix(reason) ==
    IF reason # EmptyString THEN <<", reason : ">> \o reason ELSE EmptyString

PatchOp(path, value) == [op |-> "add", path |-> path, value |-> value]

AnnotationsPath == <<"/", "metadata", "/", "annotations", "/">>

(***************************************************************************)
(* The single-endpoint revision: validateAndMutateCreateRequest.           *)
(***************************************************************************)
\* isNotFoundError: msg[len(msg)-len(notFound):] == notFound; the slice
\* expression panics when msg is shorter than notFound
isNotFoundErrorPanics(msg) == Len(msg) < Len(notFound)

isNotFoundError(msg) ==
    SubSeq(msg, Len(msg) - Len(notFound) + 1, Len(msg)) = notFound

\* the review's Denied field is not read
isAuthorizedToReadCredSpec_DeniedIgnored(sar) ==
    IF sar.failed
    THEN [authorized |-> FALSE,
          reason |-> <<"could not check authz access: ">> \o sar.msg]
    ELSE [authorized |-> sar.allowed, reason |-> sar.reason]

\* a failed review is not told apart from a review that allows
isAuthorizedToReadCredSpec_FailureAllowed(sar) ==
    [authorized |-> sar.failed \/ (sar.allowed /\ ~sar.denied), reason |-> sar.reason]

\* the failure of the review is not reported as the reason
isAuthorizedToReadCredSpec_FailureSilent(sar) ==
    [authorized |-> ~sar.failed /\ sar.allowed /\ ~sar.denied, reason |-> sar.reason]

\* isAuthorizedToReadCredSpec: a failed review is "not authorized", with the
\* failure as the reason
isAuthorizedToReadCredSpec(sar) ==
    IF sar.failed
    THEN [authorized |-> FALSE,
          reason |-> <<"could not check authz access: ">> \o sar.msg]
    ELSE [authorized |-> sar.allowed /\ ~sar.denied, reason |-> sar.reason]

InlineUnauthorizedMsg(credSpecName, reason) ==
    <<"the service account used for this pod does not have use access to the ">>
        \o credSpecName \o <<" gMSA cred spec">> \o ReasonSuffix(reason)

\* the patch appended for a resolved pair
InlinePatch(contentsKey, contents) ==
    PatchOp(AnnotationsPath \o contentsKey, jsonMarshal(contents))

\* the error of a failed Get
InlineGetError(credSpecName, msg, i) ==
    IF isNotFoundError(msg)
    THEN podAdmissionError(<<"cred spec ">> \o credSpecName \o <<" does not exist">>,
                           StatusNotFound, i)
    ELSE podAdmissionError(<<"unable to retrieve the contents of cred spec ">>
                               \o credSpecName \o <<": ">> \o msg,
                           StatusInternalServerError, i)

\* validateAndInlineSingleGMSASpec on pair i of the pod, the access review
\* answering sar and the store answering get when they are called
validateAndInlineSingleGMSASpec(pod, i, p, c, sar, get) ==
    LET pair == iterateOverGMSAAnnotationPairs(pod.containers)[i]
        credSpecName == MapGet(pod.annotations, pair.nameKey)
        auth == isAuthorizedToReadCredSpec(sar)
        c1 == Append(c, GateCall(i, pod.serviceAccountName, pod.namespace,
                                 credSpecName, sar))
        c2 == Append(c1, StoreCall(i, credSpecName, get,
                                   IF GetKind(get) = "ok"
                                   THEN jsonMarshal(get.contents) ELSE EmptyString))
    IN  IF ContentsPreset(pod, pair.contentsKey)
        THEN StepResult(p, podAdmissionError(PresetContentsMsg(pair.contentsKey),
                                             StatusForbidden, i), c, FALSE)
        ELSE IF NoCredSpecRequested(pod, pair.nameKey)
        THEN StepResult(p, NoError, c, FALSE)
        ELSE IF ~auth.authorized
        THEN StepResult(p, podAdmissionError(
                               InlineUnauthorizedMsg(credSpecName, auth.reason),
                               StatusForbidden, i), c1, FALSE)
        ELSE IF get.failed
        THEN IF isNotFoundErrorPanics(get.msg)
             THEN StepResult(p, NoError, c2, TRUE)
             ELSE StepResult(p, InlineGetError(credSpecName, get.msg, i), c2, FALSE)
        ELSE IF ~get.present \/ get.contents = JsonString(EmptyString)
        THEN StepResult(p, podAdmissionError(
                               <<"cred spec ">> \o credSpecName
                                   \o <<" does not have a ">> \o crdContentsField
                                   \o <<" key">>,
                               StatusExpectationFailed, i), c2, FALSE)
        ELSE StepResult(Append(p, InlinePatch(pair.contentsKey, get.contents)),
                        NoError, c2, FALSE)

(***************************************************************************)
(* The two-endpoint revision: the client behind kubeClientInterface, then  *)
(* validateCreateRequest and mutateCreateRequest.                          *)
(***************************************************************************)
\* client.isAuthorizedToUseCredSpec: allowed or not, with a reason; a failed
\* review is "not authorized" with the failure as the reason
isAuthorizedToUseCredSpec(sar) ==
    IF sar.failed
    THEN [authorized |-> FALSE,
          reason |-> <<"could not check authz access: ">> \o sar.msg]
    ELSE [authorized |-> sar.allowed /\ ~sar.denied, reason |-> sar.reason]

\* client.retrieveCredSpecContents: the contents, or an error with its code:
\* not found, no usable contents field, or any other failure
retrieveCredSpecContents(credSpecName, get) ==
    IF get.failed /\ get.msg = ErrSpecNotFound
    THEN [failed |-> TRUE, code |-> StatusNotFound, contents |-> EmptyString,
          msg |-> <<"cred spec ">> \o credSpecName \o <<" does not exist">>]
    ELSE IF get.failed
    THEN [failed |-> TRUE, code |-> StatusInternalServerError,
          contents |-> EmptyString,
          msg |-> <<"unable to retrieve the contents of cred spec ">>
                      \o credSpecName \o <<": ">> \o get.msg]
    ELSE IF ~get.present \/ get.contents.text = EmptyString
    THEN [failed |-> TRUE, code |-> StatusExpectationFailed,
          contents |-> EmptyString,
          msg |-> <<"cred spec ">> \o credSpecName \o <<" does not have a ">>
                      \o crdContentsField \o <<" key">>]
    ELSE [failed |-> FALSE, code |-> 0, contents |-> get.contents.text,
          msg |-> EmptyString]

ValidateUnauthorizedMsg(serviceAccount, credSpecName, reason) ==
    <<"service account ">> \o serviceAccount
        \o <<" does not have use access to the ">> \o credSpecName
        \o <<" gMSA cred spec">> \o ReasonSuffix(reason)

\* the contents annotation is not compared with the contents of the store
ValidateContentsError_NotCompared(pod, i, pair, credSpecName, get) ==
    LET r == retrieveCredSpecContents(credSpecName, get)
    IN  IF r.failed THEN podAdmissionError(r.msg, r.code, i) ELSE NoError

\* the error of the contents annotation checked against the store
ValidateContentsError(pod, i, pair, credSpecName, get) ==
    LET r == retrieveCredSpecContents(credSpecName, get)
    IN  IF r.failed
        THEN podAdmissionError(r.msg, r.code, i)
        ELSE IF pod.annotations[pair.contentsKey] # r.contents
        THEN podAdmissionError(<<"cred spec contained in annotation ">>
                                   \o pair.contentsKey
                                   \o <<" does not match the contents of GMSA ">>
                                   \o credSpecName,
                               StatusForbidden, i)
        ELSE NoError

\* the callback of validateCreateRequest on pair i
validateCreatePair(pod, namespace, i, e, c, sar, get) ==
    LET pair == iterateOverGMSAAnnotationPairs(pod.containers)[i]
        credSpecName == MapGet(pod.annotations, pair.nameKey)
        auth == isAuthorizedToUseCredSpec(sar)
        c1 == Append(c, GateCall(i, pod.serviceAccountName, namespace,
                                 credSpecName, sar))
        c2 == Append(c1, StoreCall(i, credSpecName, get,
                                   retrieveCredSpecContents(credSpecName, get).contents))
    IN  IF e.set
        THEN StepResult(<< >>, e, c, FALSE)
        ELSE IF ~NoCredSpecRequested(pod, pair.nameKey)
        THEN IF ~auth.authorized
             THEN StepResult(<< >>, podAdmissionError(
                                 ValidateUnauthorizedMsg(pod.serviceAccountName,
                                                         credSpecName, auth.reason),
                                 StatusForbidden, i), c1, FALSE)
             ELSE IF ContentsPreset(pod, pair.contentsKey)
             THEN StepResult(<< >>, ValidateContentsError(pod, i, pair,
                                                          credSpecName, get),
                             c2, FALSE)
             ELSE StepResult(<< >>, NoError, c1, FALSE)
        ELSE IF ContentsPreset(pod, pair.contentsKey)
        THEN StepResult(<< >>, podAdmissionError(PresetContentsMsg(pair.contentsKey),
                                                 StatusForbidden, i), c, FALSE)
        ELSE StepResult(<< >>, NoError, c, FALSE)

\* the patch appended for a resolved pair
MutatePatch(contentsKey, contents) ==
    PatchOp(AnnotationsPath \o jsonPatchEscaper(contentsKey), contents)

\* the callback does not return at once when an earlier pair failed
mutateCreatePair_KeepsGoing(pod, i, p, e, c, get) ==
    LET pair == iterateOverGMSAAnnotationPairs(pod.containers)[i]
        credSpecName == MapGet(pod.annotations, pair.nameKey)
        r == retrieveCredSpecContents(credSpecName, get)
        c1 == Append(c, StoreCall(i, credSpecName, get, r.contents))
    IN  IF ContentsPreset(pod, pair.contentsKey)
        THEN StepResult(p, podAdmissionError(PresetContentsMsg(pair.contentsKey),
                                             StatusForbidden, i), c, FALSE)
        ELSE IF ~NoCredSpecRequested(pod, pair.nameKey)
        THEN IF r.failed
             THEN StepResult(p, podAdmissionError(r.msg, r.code, i), c1, FALSE)
             ELSE StepResult(Append(p, MutatePatch(pair.contentsKey, r.contents)),
                             e, c1, FALSE)
        ELSE StepResult(p, e, c, FALSE)

\* the contents fetched for a reference name earlier in the request are
\* used again, without a second fetch
mutateCreatePair_Cached(pod, i, p, e, c, get) ==
    LET pair == iterateOverGMSAAnnotationPairs(pod.containers)[i]
        credSpecName == MapGet(pod.annotations, pair.nameKey)
        r == retrieveCredSpecContents(credSpecName, get)
        c1 == Append(c, StoreCall(i, credSpecName, get, r.contents))
        fetched == {j \in 1..Len(c) : c[j].ok /\ c[j].credSpecName = credSpecName}
    IN  IF e.set
        THEN StepResult(p, e, c, FALSE)
        ELSE IF ContentsPreset(pod, pair.contentsKey)
        THEN StepResult(p, podAdmissionError(PresetContentsMsg(pair.contentsKey),
                                             StatusForbidden, i), c, FALSE)
        ELSE IF ~NoCredSpecRequested(pod, pair.nameKey)
        THEN IF fetched # {}
             THEN StepResult(Append(p, MutatePatch(pair.contentsKey,
                                                   c[CHOOSE j \in fetched : TRUE].value)),
                             NoError, c, FALSE)
             ELSE IF r.failed
             THEN StepResult(p, podAdmissionError(r.msg, r.code, i), c1, FALSE)
             ELSE StepResult(Append(p, MutatePatch(pair.contentsKey, r.contents)),
                             NoError, c1, FALSE)
        ELSE StepResult(p, NoError, c, FALSE)

\* the callback of mutateCreateRequest on pair i
mutateCreatePair(pod, i, p, e, c, get) ==
    LET pair == iterateOverGMSAAnnotationPairs(pod.containers)[i]
        credSpecName == MapGet(pod.annotations, pair.nameKey)
        r == retrieveCredSpecContents(credSpecName, get)
        c1 == Append(c, StoreCall(i, credSpecName, get, r.contents))
    IN  IF e.set
        THEN StepResult(p, e, c, FALSE)
        ELSE IF ContentsPreset(pod, pair.contentsKey)
        THEN StepResult(p, podAdmissionError(PresetContentsMsg(pair.contentsKey),
                                             StatusForbidden, i), c, FALSE)
        ELSE IF ~NoCredSpecRequested(pod, pair.nameKey)
        THEN IF r.failed
             THEN StepResult(p, podAdmissionError(r.msg, r.code, i), c1, FALSE)
             ELSE StepResult(Append(p, MutatePatch(pair.contentsKey, r.contents)),
                             NoError, c1, FALSE)
        ELSE StepResult(p, NoError, c, FALSE)

(***************************************************************************)
(* validateUpdateRequest, in both revisions.                               *)
(***************************************************************************)
\* assertAnnotationsUnchanged: the values read from the two maps differ
assertAnnotationsUnchanged(pod, oldPod, key, i) ==
    IF MapGet(pod.annotations, key) # MapGet(oldPod.annotations, key)
    THEN podAdmissionError(
             <<"cannot update an existing pod's gMSA annotation (annotation ">>
                 \o key \o <<" changed)">>,
             StatusForbidden, i)
    ELSE NoError

\* two-endpoint revision: the callback keeps the first error
RECURSIVE validateUpdateFrom(_, _, _, _)
validateUpdateFrom(pod, oldPod, i, e) ==
    LET pairs == iterateOverGMSAAnnotationPairs(pod.containers)
        nameKeyErr == assertAnnotationsUnchanged(pod, oldPod, pairs[i].nameKey, i)
        contentsKeyErr ==
            assertAnnotationsUnchanged(pod, oldPod, pairs[i].contentsKey, i)
        e1 == IF e.set THEN e
              ELSE IF nameKeyErr.set THEN nameKeyErr
              ELSE IF contentsKeyErr.set THEN contentsKeyErr
              ELSE NoError
    IN  IF i > Len(pairs) THEN e ELSE validateUpdateFrom(pod, oldPod, i + 1, e1)

validateUpdateRequestIter(pod, oldPod) == validateUpdateFrom(pod, oldPod, 1, NoError)

\* single-endpoint revision: every check is made, the first error is returned
validateUpdateRequestList(pod, oldPod) ==
    LET pairs == iterateOverGMSAAnnotationPairs(pod.containers)
        errors == [j \in 1..(2 * Len(pairs)) |->
                     IF j % 2 = 1
                     THEN assertAnnotationsUnchanged(pod, oldPod,
                              pairs[(j + 1) \div 2].nameKey, (j + 1) \div 2)
                     ELSE assertAnnotationsUnchanged(pod, oldPod,
                              pairs[j \div 2].contentsKey, j \div 2)]
        failing == {j \in 1..Len(errors) : errors[j].set}
    IN  IF failing = {} THEN NoError
        ELSE errors[CHOOSE j \in failing : \A k \in failing : j <= k]

(***************************************************************************)
(* The admission requests.                                                 *)
(***************************************************************************)
AdmissionRequest(kind, operation, objectOK, pod, oldObjectOK, oldPod) ==
    [kind |-> kind, operation |-> operation, objectOK |-> objectOK, pod |-> pod,
     oldObjectOK |-> oldObjectOK, oldPod |-> oldPod,
     namespace |-> RequestNamespace, uid |-> RequestUID]

CreateRequests ==
    {AdmissionRequest("Pod", "CREATE", TRUE, p, FALSE, NoPod) : p \in CreatePods}

SetKey(m, k, v) == [x \in DOMAIN m \cup {k} |-> IF x = k THEN v ELSE m[x]]

DelKey(m, k) == [x \in DOMAIN m \ {k} |-> m[x]]

UpdateNameValues == {EmptyString, <<"spec1">>}

UpdateContentValues == {EmptyString, SpecXml}

\* the map m with key k removed or set to one of the values of its kind
Variants(m, containers, k) ==
    {DelKey(m, k)}
        \cup {SetKey(m, k, v) : v \in (IF k \in NameKeys(containers)
                                       THEN UpdateNameValues
                                       ELSE UpdateContentValues)}

UpdateRequest(containers, m, old) ==
    AdmissionRequest("Pod", "UPDATE", TRUE, MakePod(containers, m, RequestNamespace),
                     TRUE, MakePod(containers, old, RequestNamespace))

SomePod == MakePod(<< >>, << >>, RequestNamespace)

\* the correlation identifiers of requests
RequestUIDs == {RequestUID, <<"uid-2">>}

\* requests that are refused before any annotation is read: not a pod (with an
\* object that decodes or not), a pod or an old pod that does not decode, and
\* operations other than Create and Update
OtherRequests ==
    {[r EXCEPT !.uid = u] :
        r \in {AdmissionRequest("Deployment", "CREATE", TRUE, NoPod, FALSE, NoPod),
               AdmissionRequest("Deployment", "UPDATE", FALSE, NoPod, FALSE, NoPod),
               AdmissionRequest("Pod", "CREATE", FALSE, NoPod, FALSE, NoPod),
               AdmissionRequest("Pod", "UPDATE", FALSE, NoPod, TRUE, SomePod),
               AdmissionRequest("Pod", "UPDATE", TRUE, SomePod, FALSE, NoPod),
               AdmissionRequest("Pod", "DELETE", TRUE, SomePod, FALSE, NoPod),
               AdmissionRequest("Pod", "CONNECT", TRUE, SomePod, FALSE, NoPod)},
        u \in RequestUIDs}

\* an annotation key that belongs to no pair
UntrackedKey == <<"app">>

\* Update requests that change an annotation of no pair, alone or together
\* with the name of the pod-level pair, and Update requests whose old pod has
\* a container, with a reference, that the new pod no longer has
ExtraUpdateRequests ==
    {AdmissionRequest("Pod", "UPDATE", TRUE,
                      MakePod(<< >>, m, RequestNamespace),
                      TRUE, MakePod(ocs, old, RequestNamespace)) :
        m \in {(UntrackedKey :> <<"v1">>),
               (UntrackedKey :> <<"v1">>) @@ (gMSAPodSpecNameAnnotationKey :> <<"spec1">>)},
        ocs \in {<< >>, <<ContainerNamePool[1]>>},
        old \in {<< >>,
                 (UntrackedKey :> <<"v2">>) @@ (gMSAPodSpecNameAnnotationKey :> <<"spec1">>),
                 (ContainerNamePool[1] \o gMSAContainerSpecNameAnnotationKeySuffix
                     :> <<"spec1">>)}}

\* some request satisfies P: a Create request, a refused request, or an Update
\* request whose old pod has the containers of the new one and annotations
\* that differ from the new ones in at most two keys, or one of the Update
\* requests above
AnyRequest(P(_)) ==
    \/ \E r \in CreateRequests \cup OtherRequests \cup ExtraUpdateRequests : P(r)
    \/ \E cs \in ContainerLists :
          \E m \in AnnotationMaps(cs, UpdateNameValues, UpdateContentValues) :
             \E k1 \in TrackedKeys(cs), k2 \in TrackedKeys(cs) :
                \E m1 \in Variants(m, cs, k1) :
                   \E old \in Variants(m1, cs, k2) : P(UpdateRequest(cs, m, old))

(***************************************************************************)
(* validateOrMutate and validateAndMutate: the dispatch of a request.      *)
(***************************************************************************)
NoOutcome == [set |-> FALSE, allowed |-> FALSE, hasPatch |-> FALSE, patch |-> << >>]

\* Patch and PatchType are set also when there is no patch
AllowedResponse_AlwaysPatch(p) ==
    [set |-> TRUE, allowed |-> TRUE, hasPatch |-> TRUE, patch |-> p]

\* &AdmissionResponse{Allowed: true}, with Patch and PatchType set when there
\* is at least one patch
AllowedResponse(p) ==
    [set |-> TRUE, allowed |-> TRUE, hasPatch |-> Len(p) # 0, patch |-> p]

Dispatched(next, e, o) == [next |-> next, err |-> e, outcome |-> o]

Returned(e) ==
    Dispatched("return", e, IF e.set THEN NoOutcome ELSE AllowedResponse(<< >>))

\* the kind is refused with Forbidden
NotAPodError_Forbidden(kind) ==
    podAdmissionError(<<"expected a pod object, got a ", kind>>, StatusForbidden, 0)

NotAPodError(kind) ==
    podAdmissionError(<<"expected a pod object, got a ", kind>>, StatusBadRequest, 0)

unmarshallPodError ==
    podAdmissionError(<<"unable to unmarshall pod JSON object">>, StatusBadRequest, 0)

\* the operation is refused with Forbidden
UnexpectedOperationError_Forbidden(operation) ==
    podAdmissionError(<<"unpexpected operation ", operation>>, StatusForbidden, 0)

UnexpectedOperationError(operation) ==
    podAdmissionError(<<"unpexpected operation ", operation>>, StatusBadRequest, 0)

\* the mutating endpoint compares the old pod with the new one too
validateOrMutate_UpdateAlwaysChecked(request, operation) ==
    IF request.kind # "Pod" THEN Returned(NotAPodError(request.kind))
    ELSE IF ~request.objectOK THEN Returned(unmarshallPodError)
    ELSE IF request.operation = "CREATE"
    THEN IF operation = "VALIDATE" THEN Dispatched("validateCreate", NoError, NoOutcome)
         ELSE IF operation = "MUTATE" THEN Dispatched("mutateCreate", NoError, NoOutcome)
         ELSE Dispatched("panicked", NoError, NoOutcome)
    ELSE IF request.operation = "UPDATE"
    THEN IF ~request.oldObjectOK THEN Returned(unmarshallPodError)
         ELSE Returned(validateUpdateRequestIter(request.pod, request.oldPod))
    ELSE Returned(UnexpectedOperationError(request.operation))

\* two-endpoint revision; operation is the webhookOperation of the endpoint
validateOrMutate(request, operation) ==
    IF request.kind # "Pod" THEN Returned(NotAPodError(request.kind))
    ELSE IF ~request.objectOK THEN Returned(unmarshallPodError)
    ELSE IF request.operation = "CREATE"
    THEN IF operation = "VALIDATE" THEN Dispatched("validateCreate", NoError, NoOutcome)
         ELSE IF operation = "MUTATE" THEN Dispatched("mutateCreate", NoError, NoOutcome)
         ELSE Dispatched("panicked", NoError, NoOutcome)
    ELSE IF request.operation = "UPDATE"
    THEN IF operation = "VALIDATE"
         THEN IF ~request.oldObjectOK THEN Returned(unmarshallPodError)
              ELSE Returned(validateUpdateRequestIter(request.pod, request.oldPod))
         ELSE Returned(NoError)
    ELSE Returned(UnexpectedOperationError(request.operation))

\* an Update is handled as a Create is
validateAndMutate_UpdateInlined(request) ==
    IF request.kind # "Pod" THEN Returned(NotAPodError(request.kind))
    ELSE IF ~request.objectOK THEN Returned(unmarshallPodError)
    ELSE IF request.operation \in {"CREATE", "UPDATE"}
    THEN Dispatched("inlineCreate", NoError, NoOutcome)
    ELSE Returned(UnexpectedOperationError(request.operation))

\* single-endpoint revision
validateAndMutate(request) ==
    IF request.kind # "Pod" THEN Returned(NotAPodError(request.kind))
    ELSE IF ~request.objectOK THEN Returned(unmarshallPodError)
    ELSE IF request.operation = "CREATE"
    THEN Dispatched("inlineCreate", NoError, NoOutcome)
    ELSE IF request.operation = "UPDATE"
    THEN IF ~request.oldObjectOK THEN Returned(unmarshallPodError)
         ELSE Returned(validateUpdateRequestList(request.pod, request.oldPod))
    ELSE Returned(UnexpectedOperationError(request.operation))

(***************************************************************************)
(* The response sent back: httpRequestToAdmissionResponse.                 *)
(***************************************************************************)
NoResponse ==
    [set |-> FALSE, allowed |-> FALSE, hasPatch |-> FALSE, patch |-> << >>,
     message |-> EmptyString, code |-> 0, uid |-> EmptyString]

\* deniedAdmissionResponse: the code is taken from the error when the type
\* assertion succeeds.  The two-endpoint revision asserts *podAdmissionError,
\* the type of the error it is given; the single-endpoint revision asserts
\* podAdmissionError, which a *podAdmissionError is not, and keeps code 0.
deniedAdmissionResponse(e, path) ==
    [set |-> TRUE, allowed |-> FALSE, hasPatch |-> FALSE, patch |-> << >>,
     message |-> e.msg,
     code |-> IF path = "/validate-mutate" THEN 0 ELSE e.code,
     uid |-> EmptyString]

\* the UID of the request is not copied into the response
httpRequestToAdmissionResponse_UIDDropped(request, path, e, o) ==
    IF e.set THEN deniedAdmissionResponse(e, path)
    ELSE [set |-> TRUE, allowed |-> o.allowed, hasPatch |-> o.hasPatch,
          patch |-> o.patch, message |-> EmptyString, code |-> 0,
          uid |-> EmptyString]

httpRequestToAdmissionResponse(request, path, e, o) ==
    LET admissionResponse ==
            IF e.set THEN deniedAdmissionResponse(e, path)
            ELSE [set |-> TRUE, allowed |-> o.allowed, hasPatch |-> o.hasPatch,
                  patch |-> o.patch, message |-> EmptyString, code |-> 0,
                  uid |-> EmptyString]
    IN  [admissionResponse EXCEPT !.uid = request.uid]

(***************************************************************************)
(* The state machine: one request in flight at a time.                     *)
(***************************************************************************)
NoRequest == AdmissionRequest("", "", FALSE, NoPod, FALSE, NoPod)

NoStored == [exists |-> FALSE, pod |-> NoPod, webhook |-> ""]

request_vars == <<pc, endpoint, req, idx, patches, err, calls, outcome, response>>

\* the state of the second goroutine and of the HTTP server
webhook_vars == <<other, server, servers, callers>>

\* the locals of a goroutine that handles a request
Goroutine(p, path, r, i, ps, e, c, o, resp) ==
    [pc |-> p, endpoint |-> path, req |-> r, idx |-> i, patches |-> ps,
     err |-> e, calls |-> c, outcome |-> o, response |-> resp]

IdleGoroutine ==
    Goroutine("idle", "", NoRequest, 0, << >>, NoError, << >>, NoOutcome, NoResponse)

\* a goroutine that calls start or stop: where it is, the server it created
\* (0: none) and the error it returned
IdleCaller == [pc |-> "idle", made |-> 0, result |-> ""]

Init ==
    /\ pc = "idle"
    /\ endpoint = ""
    /\ req = NoRequest
    /\ idx = 0
    /\ patches = << >>
    /\ err = NoError
    /\ calls = << >>
    /\ outcome = NoOutcome
    /\ response = NoResponse
    /\ stored = NoStored
    /\ written = << >>
    /\ other = IdleGoroutine
    /\ server = 0
    /\ servers = << >>
    /\ callers = [c \in Callers |-> IdleCaller]

NPairs == Len(iterateOverGMSAAnnotationPairs(req.pod.containers))

\* the request r enters the handler of path, which dispatches it
Serve(path, r, d) ==
    /\ pc' = d.next
    /\ endpoint' = path
    /\ req' = r
    /\ idx' = 1
    /\ patches' = << >>
    /\ err' = d.err
    /\ calls' = << >>
    /\ outcome' = d.outcome
    /\ response' = NoResponse

\* ServeHTTP, case "/validate"
ServeValidateOf(r) == Serve("/validate", r, validateOrMutate(r, "VALIDATE"))

ServeValidate ==
    /\ pc = "idle"
    /\ AnyRequest(ServeValidateOf)
    /\ UNCHANGED <<stored, written, webhook_vars>>

\* ServeHTTP, case "/mutate"
ServeMutateOf(r) == Serve("/mutate", r, validateOrMutate(r, "MUTATE"))

ServeMutate ==
    /\ pc = "idle"
    /\ AnyRequest(ServeMutateOf)
    /\ UNCHANGED <<stored, written, webhook_vars>>

\* ServeHTTP of the single-endpoint revision
ServeValidateMutateOf(r) == Serve("/validate-mutate", r, validateAndMutate(r))

ServeValidateMutate ==
    /\ pc = "idle"
    /\ AnyRequest(ServeValidateMutateOf)
    /\ UNCHANGED <<stored, written, webhook_vars>>

\* validateCreateRequest: the callback runs on the next pair
ValidateCreateStep ==
    /\ pc = "validateCreate"
    /\ idx <= NPairs
    /\ \E sar \in SarAnswers, get \in GetAnswers :
          LET r == validateCreatePair(req.pod, req.namespace, idx, err, calls, sar, get)
          IN  /\ err' = r.err
              /\ calls' = r.calls
    /\ idx' = idx + 1
    /\ UNCHANGED <<pc, endpoint, req, patches, outcome, response, stored, written, webhook_vars>>

\* validateCreateRequest: after the iteration
ValidateCreateReturn ==
    /\ pc = "validateCreate"
    /\ idx > NPairs
    /\ pc' = "return"
    /\ outcome' = IF err.set THEN NoOutcome ELSE AllowedResponse(<< >>)
    /\ UNCHANGED <<endpoint, req, idx, patches, err, calls, response, stored, written, webhook_vars>>

\* mutateCreateRequest: the callback runs on the next pair
MutateCreateStep ==
    /\ pc = "mutateCreate"
    /\ idx <= NPairs
    /\ \E get \in GetAnswers :
          LET r == mutateCreatePair(req.pod, idx, patches, err, calls, get)
          IN  /\ patches' = r.patches
              /\ err' = r.err
              /\ calls' = r.calls
    /\ idx' = idx + 1
    /\ UNCHANGED <<pc, endpoint, req, outcome, response, stored, written, webhook_vars>>

\* mutateCreateRequest: after the iteration
MutateCreateReturn ==
    /\ pc = "mutateCreate"
    /\ idx > NPairs
    /\ pc' = "return"
    /\ outcome' = IF err.set THEN NoOutcome ELSE AllowedResponse(patches)
    /\ UNCHANGED <<endpoint, req, idx, patches, err, calls, response, stored, written, webhook_vars>>

\* validateAndMutateCreateRequest: the next pair is validated and inlined; an
\* error returns at once, a panic ends the handler
InlineStep ==
    /\ pc = "inlineCreate"
    /\ idx <= NPairs
    /\ \E sar \in SarAnswers, get \in GetAnswers :
          LET r == validateAndInlineSingleGMSASpec(req.pod, idx, patches, calls, sar, get)
          IN  /\ patches' = r.patches
              /\ err' = r.err
              /\ calls' = r.calls
              /\ pc' = IF r.panicked THEN "panicked"
                       ELSE IF r.err.set THEN "return" ELSE "inlineCreate"
    /\ idx' = idx + 1
    /\ UNCHANGED <<endpoint, req, outcome, response, stored, written, webhook_vars>>

\* validateAndMutateCreateRequest: after the last pair
InlineReturn ==
    /\ pc = "inlineCreate"
    /\ idx > NPairs
    /\ pc' = "return"
    /\ outcome' = AllowedResponse(patches)
    /\ UNCHANGED <<endpoint, req, idx, patches, err, calls, response, stored, written, webhook_vars>>

\* httpRequestToAdmissionResponse: the response is built and sent
Respond ==
    /\ pc = "return"
    /\ pc' = "done"
    /\ response' = httpRequestToAdmissionResponse(req, endpoint, err, outcome)
    /\ UNCHANGED <<endpoint, req, idx, patches, err, calls, outcome, stored, written, webhook_vars>>

\* the server is ready for the next request; net/http recovers a panic of a
\* handler and keeps serving
NextRequest ==
    /\ pc \in {"done", "panicked"}
    /\ pc' = "idle"
    /\ endpoint' = ""
    /\ req' = NoRequest
    /\ idx' = 0
    /\ patches' = << >>
    /\ err' = NoError
    /\ calls' = << >>
    /\ outcome' = NoOutcome
    /\ response' = NoResponse
    /\ UNCHANGED <<stored, written, webhook_vars>>

Next ==
    \/ ServeValidate
    \/ ServeMutate
    \/ ServeValidateMutate
    \/ ValidateCreateStep
    \/ ValidateCreateReturn
    \/ MutateCreateStep
    \/ MutateCreateReturn
    \/ InlineStep
    \/ InlineReturn
    \/ Respond
    \/ NextRequest

Spec == Init /\ [][Next]_vars

(***************************************************************************)
(* The life of one pod in a cluster that runs one revision of the webhook. *)
(* The API server sends a Create or an Update to "/mutate" and then, with  *)
(* the patch applied, to "/validate" (two-endpoint revision), or only to   *)
(* "/validate-mutate" (single-endpoint revision), and persists the object  *)
(* when every response allows it and the patch applies.                    *)
(***************************************************************************)
\* ServeHTTP: the handler of the path
ServeHTTP(path, r) ==
    Serve(path, r, IF path = "/validate-mutate" THEN validateAndMutate(r)
                   ELSE IF path = "/validate" THEN validateOrMutate(r, "VALIDATE")
                   ELSE validateOrMutate(r, "MUTATE"))

RECURSIVE ReplaceAll(_, _, _)
ReplaceAll(s, old, new) ==
    IF Len(s) < Len(old) THEN s
    ELSE IF SubSeq(s, 1, Len(old)) = old
    THEN new \o ReplaceAll(SubSeq(s, Len(old) + 1, Len(s)), old, new)
    ELSE <<Head(s)>> \o ReplaceAll(Tail(s), old, new)

\* the reference token of a JSON pointer decoded (RFC 6901, section 4): "~1"
\* to "/" first, then "~0" to "~"
jsonPointerUnescape(s) ==
    ReplaceAll(ReplaceAll(s, <<"~", "1">>, <<"/">>), <<"~", "0">>, <<"~">>)

PatchSegment(op) == SubSeq(op.path, Len(AnnotationsPath) + 1, Len(op.path))

\* an "add" applies when its path names a member of the annotations object,
\* which must exist: one reference token after "/metadata/annotations/"
PatchApplies(pod, op) ==
    /\ DOMAIN pod.annotations # {}
    /\ SubSeq(op.path, 1, Len(AnnotationsPath)) = AnnotationsPath
    /\ \A i \in 1..Len(PatchSegment(op)) : PatchSegment(op)[i] # "/"

RECURSIVE PatchesApply(_, _)
PatchesApply(pod, patch) ==
    IF patch = << >> THEN TRUE
    ELSE PatchApplies(pod, Head(patch)) /\ PatchesApply(pod, Tail(patch))

RECURSIVE ApplyPatches(_, _)
ApplyPatches(annotations, patch) ==
    IF patch = << >> THEN annotations
    ELSE ApplyPatches(SetKey(annotations, jsonPointerUnescape(PatchSegment(Head(patch))),
                             Head(patch).value),
                      Tail(patch))

\* the patch of the mutating endpoint is dropped
Patched_NotApplied(pod, patch) == pod

Patched(pod, patch) ==
    [pod EXCEPT !.annotations = ApplyPatches(pod.annotations, patch)]

\* the annotations written by the patch
PatchedValues(patch) == ApplyPatches(<< >>, patch)

\* a client creates the pod
LifeCreate ==
    /\ pc = "idle"
    /\ ~stored.exists
    /\ \E path \in {"/mutate", "/validate-mutate"} :
          /\ stored' = [stored EXCEPT !.webhook = path]
          /\ \E cs \in ContainerLists :
                \E m \in AnnotationMaps(cs, UpdateNameValues, UpdateContentValues) :
                   ServeHTTP(path, AdmissionRequest("Pod", "CREATE", TRUE,
                                                    MakePod(cs, m, RequestNamespace),
                                                    FALSE, NoPod))
    /\ written' = << >>
    /\ UNCHANGED webhook_vars

\* a client updates the stored pod, changing at most two tracked annotations
LifeUpdate ==
    /\ pc = "idle"
    /\ stored.exists
    /\ \E k1 \in TrackedKeys(stored.pod.containers),
          k2 \in TrackedKeys(stored.pod.containers) :
          \E m1 \in Variants(stored.pod.annotations, stored.pod.containers, k1) :
             \E m \in Variants(m1, stored.pod.containers, k2) :
                ServeHTTP(stored.webhook,
                          AdmissionRequest("Pod", "UPDATE", TRUE,
                                           [stored.pod EXCEPT !.annotations = m],
                                           TRUE, stored.pod))
    /\ UNCHANGED <<stored, written, webhook_vars>>

Forget ==
    /\ pc' = "idle"
    /\ endpoint' = ""
    /\ req' = NoRequest
    /\ idx' = 0
    /\ patches' = << >>
    /\ err' = NoError
    /\ calls' = << >>
    /\ outcome' = NoOutcome
    /\ response' = NoResponse

\* the API server refuses the operation: the webhook denied it, sent no
\* response, or sent a patch that does not apply
LifeReject ==
    /\ IF pc = "done"
       THEN ~(response.allowed /\ PatchesApply(req.pod, response.patch))
       ELSE pc = "panicked"
    /\ Forget
    /\ written' = IF req.operation = "CREATE" THEN << >> ELSE written
    /\ UNCHANGED <<stored, webhook_vars>>

\* the API server applies the patch of "/mutate" and asks "/validate"
LifeValidate ==
    /\ pc = "done"
    /\ endpoint = "/mutate"
    /\ response.allowed
    /\ PatchesApply(req.pod, response.patch)
    /\ ServeHTTP("/validate", [req EXCEPT !.pod = Patched(req.pod, response.patch)])
    /\ written' = IF req.operation = "CREATE" THEN PatchedValues(response.patch)
                  ELSE written
    /\ UNCHANGED <<stored, webhook_vars>>

\* the API server persists the object
LifePersist ==
    /\ pc = "done"
    /\ endpoint \in {"/validate", "/validate-mutate"}
    /\ response.allowed
    /\ PatchesApply(req.pod, response.patch)
    /\ Forget
    /\ stored' = [stored EXCEPT !.exists = TRUE,
                                !.pod = Patched(req.pod, response.patch)]
    /\ written' = IF req.operation = "CREATE" /\ endpoint = "/validate-mutate"
                  THEN PatchedValues(response.patch) ELSE written
    /\ UNCHANGED webhook_vars

LifeNext ==
    \/ LifeCreate
    \/ LifeUpdate
    \/ ValidateCreateStep
    \/ ValidateCreateReturn
    \/ MutateCreateStep
    \/ MutateCreateReturn
    \/ InlineStep
    \/ InlineReturn
    \/ Respond
    \/ LifeReject
    \/ LifeValidate
    \/ LifePersist

SpecLife == Init /\ [][LifeNext]_vars

(***************************************************************************)
(* The escaping of annotation keys.  A pod whose container name is any     *)
(* string over characters that include "/", "~", "0" and "1" is created    *)
(* through "/mutate": the handler escapes the contents key of the          *)
(* container into the path of the patch, and the API server decodes the    *)
(* path when it applies the patch.                                         *)
(***************************************************************************)
KeyAlphabet == {"a", "/", "~", "0", "1"}

KeyNames == UNION {[1..n -> KeyAlphabet] : n \in 0..MaxKeyLen}

\* the pod with one container of that name, which names a credential spec
KeyPod(name) ==
    MakePod(<<name>>,
            SetKey(<< >>, iterateOverGMSAAnnotationPairs(<<name>>)[2].nameKey,
                   <<"spec1">>),
            RequestNamespace)

\* a client creates such a pod
EscapeCreate ==
    /\ pc = "idle"
    /\ ~stored.exists
    /\ \E name \in KeyNames :
          ServeHTTP("/mutate", AdmissionRequest("Pod", "CREATE", TRUE, KeyPod(name),
                                                FALSE, NoPod))
    /\ stored' = [stored EXCEPT !.webhook = "/mutate"]
    /\ written' = << >>
    /\ UNCHANGED webhook_vars

EscapeNext ==
    \/ EscapeCreate
    \/ MutateCreateStep
    \/ MutateCreateReturn
    \/ ValidateCreateStep
    \/ ValidateCreateReturn
    \/ Respond
    \/ LifeReject
    \/ LifeValidate
    \/ LifePersist

SpecEscape == Init /\ [][EscapeNext]_vars

(***************************************************************************)
(* Two requests handled concurrently.  net/http runs ServeHTTP in one      *)
(* goroutine per connection; the scheduler may leave a goroutine between   *)
(* any two steps of its handler and run the other.  The locals of the      *)
(* goroutine that runs are the request variables, those of the goroutine   *)
(* that waits are kept in other.                                           *)
(***************************************************************************)
\* pods whose pairs name the same credential spec, and a pod with contents
\* set by the client
ConcPods ==
    {MakePod(<< >>, (gMSAPodSpecNameAnnotationKey :> <<"spec1">>), RequestNamespace),
     MakePod(<<ContainerNamePool[1]>>,
             (gMSAPodSpecNameAnnotationKey :> <<"spec1">>)
                 @@ (ContainerNamePool[1] \o gMSAContainerSpecNameAnnotationKeySuffix
                       :> <<"spec1">>),
             RequestNamespace),
     MakePod(<< >>, (gMSAPodSpecContentsAnnotationKey :> SpecXml), RequestNamespace)}

ConcRequests ==
    {AdmissionRequest("Pod", "CREATE", TRUE, pod, FALSE, NoPod) : pod \in ConcPods}

\* the locals of the goroutine that runs
Running ==
    Goroutine(pc, endpoint, req, idx, patches, err, calls, outcome, response)

\* the error of the handler is a field of the webhook, not a local
Resume_SharedError(g) == [g EXCEPT !.err = err]

\* a goroutine resumes with the locals it had
Resume(g) == g

\* a request arrives on a connection
ConcServe ==
    /\ pc = "idle"
    /\ \E path \in {"/validate", "/mutate", "/validate-mutate"} :
          \E r \in ConcRequests : ServeHTTP(path, r)
    /\ UNCHANGED <<stored, written, webhook_vars>>

\* the scheduler runs the other goroutine
Switch ==
    /\ other # Running
    /\ LET g == Resume(other)
       IN  /\ pc' = g.pc
           /\ endpoint' = g.endpoint
           /\ req' = g.req
           /\ idx' = g.idx
           /\ patches' = g.patches
           /\ err' = g.err
           /\ calls' = g.calls
           /\ outcome' = g.outcome
           /\ response' = g.response
    /\ other' = Running
    /\ UNCHANGED <<stored, written, server, servers, callers>>

ConcNext ==
    \/ ConcServe
    \/ Switch
    \/ ValidateCreateStep
    \/ ValidateCreateReturn
    \/ MutateCreateStep
    \/ MutateCreateReturn
    \/ InlineStep
    \/ InlineReturn
    \/ Respond
    \/ NextRequest

SpecConc == Init /\ [][ConcNext]_vars

(***************************************************************************)
(* The life of the HTTP server of one webhook: start and stop, called by   *)
(* goroutines that run concurrently.  start reads webhook.server, and when *)
(* it is nil creates an http.Server, assigns it and blocks in              *)
(* ListenAndServe until the server is shut down or fails; no lock is held, *)
(* so another goroutine may run between the read and the assignment.       *)
(***************************************************************************)
ErrAlreadyStarted == "webhook already started"

ErrNotStarted == "webhook server not started yet"

ErrListen == "listen tcp: address already in use"

server_request_vars == <<request_vars, stored, written, other>>

\* start: if webhook.server != nil
StartCheck(c) ==
    /\ callers[c].pc = "idle"
    /\ callers' = [callers EXCEPT ![c] =
                      IF server # 0
                      THEN [pc |-> "done", made |-> 0, result |-> ErrAlreadyStarted]
                      ELSE [pc |-> "starting", made |-> 0, result |-> ""]]
    /\ UNCHANGED <<server, servers, server_request_vars>>

\* start: webhook.server = &http.Server{...}, then ListenAndServe is entered
StartServe(c) ==
    /\ callers[c].pc = "starting"
    /\ servers' = Append(servers, "listening")
    /\ server' = Len(servers) + 1
    /\ callers' = [callers EXCEPT ![c] =
                      [pc |-> "listening", made |-> Len(servers) + 1, result |-> ""]]
    /\ UNCHANGED server_request_vars

\* start: ListenAndServe returns an error other than ErrServerClosed
StartFail(c) ==
    /\ callers[c].pc = "listening"
    /\ servers[callers[c].made] = "listening"
    /\ servers' = [servers EXCEPT ![callers[c].made] = "failed"]
    /\ callers' = [callers EXCEPT ![c].pc = "done", ![c].result = ErrListen]
    /\ UNCHANGED <<server, server_request_vars>>

\* start: ListenAndServe returns ErrServerClosed, start returns nil
StartReturn(c) ==
    /\ callers[c].pc = "listening"
    /\ servers[callers[c].made] = "closed"
    /\ callers' = [callers EXCEPT ![c].pc = "done"]
    /\ UNCHANGED <<server, servers, server_request_vars>>

\* stop: an error when webhook.server is nil, Shutdown otherwise
Stop(c) ==
    /\ callers[c].pc = "idle"
    /\ IF server = 0
       THEN /\ callers' = [callers EXCEPT ![c] =
                              [pc |-> "done", made |-> 0, result |-> ErrNotStarted]]
            /\ UNCHANGED servers
       ELSE /\ callers' = [callers EXCEPT ![c] =
                              [pc |-> "done", made |-> 0, result |-> ""]]
            /\ servers' = [servers EXCEPT ![server] = "closed"]
    /\ UNCHANGED <<server, server_request_vars>>

\* the goroutine is ready for its next call
CallAgain(c) ==
    /\ callers[c].pc = "done"
    /\ callers' = [callers EXCEPT ![c] = IdleCaller]
    /\ UNCHANGED <<server, servers, server_request_vars>>

StartChecks == \E c \in Callers : StartCheck(c)

StartServes == \E c \in Callers : StartServe(c)

StartFails == \E c \in Callers : StartFail(c)

StartReturns == \E c \in Callers : StartReturn(c)

Stops == \E c \in Callers : Stop(c)

CallsAgain == \E c \in Callers : CallAgain(c)

ServerNext ==
    \/ StartChecks
    \/ StartServes
    \/ StartFails
    \/ StartReturns
    \/ Stops
    \/ CallsAgain

SpecServer == Init /\ [][ServerNext]_vars

(***************************************************************************)
(* Vocabulary of the properties.  The outcome of a request is what the     *)
(* handler returns: an AdmissionResponse (outcome), or a podAdmissionError *)
(* with its code (err).                                                    *)
(***************************************************************************)
Pairs == iterateOverGMSAAnnotationPairs(req.pod.containers)

Annotations == req.pod.annotations

IsCreate == req.kind = "Pod" /\ req.objectOK /\ req.operation = "CREATE"

IsUpdate ==
    req.kind = "Pod" /\ req.objectOK /\ req.oldObjectOK /\ req.operation = "UPDATE"

\* the handler has returned
HasReturned == pc \in {"return", "done"}

\* the handling of the request has ended, by a response or by a panic
HasEnded == pc \in {"done", "panicked"}

DeniedWith(code) == err.set /\ err.code = code /\ ~outcome.set

Allowed == ~err.set /\ outcome.set /\ outcome.allowed

\* nothing of this request is allowed or patched, whatever its position
NothingGranted ==
    /\ ~outcome.allowed /\ outcome.patch = << >>
    /\ ~response.allowed /\ response.patch = << >>

HasName(i) ==
    Pairs[i].nameKey \in DOMAIN Annotations /\ Annotations[Pairs[i].nameKey] # EmptyString

HasContents(i) == Pairs[i].contentsKey \in DOMAIN Annotations

GateCallsOf(i) == {j \in 1..Len(calls) : calls[j].kind = "gate" /\ calls[j].pair = i}

StoreCallsOf(i) == {j \in 1..Len(calls) : calls[j].kind = "store" /\ calls[j].pair = i}

\* the endpoints whose Create handler builds patches
Inlining == endpoint \in {"/mutate", "/validate-mutate"}

(***************************************************************************)
(* C1                                                                      *)
(***************************************************************************)
\* C1, as stated: a Create request one of whose pairs has its contents key
\* present is denied with Forbidden (403), whatever the other pairs hold and
\* whatever the gate and the store answer for them.
C1_PresetContentsForbidden ==
    (pc = "done" /\ IsCreate /\ Inlining /\ \E i \in 1..Len(Pairs) : HasContents(i))
        => DeniedWith(StatusForbidden)

\* C1, amended: a Create request one of whose pairs has its contents key
\* present is never allowed and never patched; the handler returns the denial
\* of the first pair that fails in resolver order, which is that pair or an
\* earlier one, and which is Forbidden (403) when it is that pair.
C1_PresetContentsDenied ==
    \A i \in 1..Len(Pairs) :
        (IsCreate /\ Inlining /\ HasContents(i))
            => /\ NothingGranted
               /\ HasReturned =>
                    /\ err.set /\ ~outcome.set
                    /\ err.pair \in 1..i
                    /\ err.pair = i => err.code = StatusForbidden

\* C1, witness: the second pair has its contents key present, the first pair
\* was resolved, and the request is denied with Forbidden by the second pair
C1_Witness ==
    /\ pc = "done" /\ IsCreate /\ Inlining
    /\ Len(Pairs) >= 2 /\ HasContents(2) /\ ~HasContents(1)
    /\ \E j \in StoreCallsOf(1) : calls[j].ok
    /\ err.pair = 2 /\ DeniedWith(StatusForbidden)

(***************************************************************************)
(* C2                                                                      *)
(***************************************************************************)
\* C2: through a Create and any number of Updates of a pod, each admitted and
\* applied, every contents key of the pod is absent or holds the value the
\* webhook patched in at the Create.
C2_ContentsOnlyFromWebhook ==
    stored.exists =>
        \A key \in ContentsKeys(stored.pod.containers) :
            key \in DOMAIN stored.pod.annotations
                => /\ key \in DOMAIN written
                   /\ stored.pod.annotations[key] = written[key]

(***************************************************************************)
(* C3                                                                      *)
(***************************************************************************)
SameAnnotation(key) ==
    /\ (key \in DOMAIN req.pod.annotations) = (key \in DOMAIN req.oldPod.annotations)
    /\ key \in DOMAIN req.pod.annotations
          => req.pod.annotations[key] = req.oldPod.annotations[key]

\* C3: an Update request is allowed if and only if every name key and every
\* contents key is absent from both pods or holds the same value in both;
\* otherwise it is denied with Forbidden (403).
C3_UpdateAllowedIffUnchanged ==
    (pc = "done" /\ IsUpdate /\ endpoint \in {"/validate", "/validate-mutate"})
        => IF \A key \in TrackedKeys(req.pod.containers) : SameAnnotation(key)
           THEN Allowed
           ELSE DeniedWith(StatusForbidden)

(***************************************************************************)
(* C4                                                                      *)
(***************************************************************************)
DistinctPairs == \A i, j \in 1..Len(Pairs) : i # j => Pairs[i] # Pairs[j]

Named == {i \in 1..Len(Pairs) : HasName(i)}

\* every named pair was authorized, if the gate was asked, and resolved
AllResolved ==
    \A i \in Named :
        /\ \A j \in GateCallsOf(i) : calls[j].ok
        /\ \E j \in StoreCallsOf(i) : calls[j].ok

\* C4: a Create request whose N named pairs are distinct, all authorized and
\* all resolved is allowed with exactly N patch operations, one per pair, at
\* path "/metadata/annotations/" followed by the escaped contents key, with the
\* contents fetched for the pair as value.
C4_OnePatchPerResolvedPair ==
    (pc = "done" /\ IsCreate /\ Inlining /\ DistinctPairs /\ AllResolved
        /\ \A i \in 1..Len(Pairs) : ~HasContents(i))
        => /\ Allowed
           /\ Len(outcome.patch) = Cardinality(Named)
           /\ \A i \in Named :
                \E n \in 1..Len(outcome.patch) :
                    /\ outcome.patch[n].op = "add"
                    /\ outcome.patch[n].path =
                           AnnotationsPath \o jsonPatchEscaper(Pairs[i].contentsKey)
                    /\ \E j \in StoreCallsOf(i) :
                           outcome.patch[n].value = calls[j].contents

(***************************************************************************)
(* C5                                                                      *)
(***************************************************************************)
GateDenials == {j \in 1..Len(calls) : calls[j].kind = "gate" /\ ~calls[j].ok}

\* C5: when the gate denies the reference name of a pair of a Create request,
\* the request is denied with Forbidden (403) and nothing is patched, also
\* when the other pairs are authorized and resolved.
C5_GateDenialForbidden ==
    (IsCreate /\ GateDenials # {})
        => /\ NothingGranted
           /\ pc # "panicked"
           /\ HasReturned => DeniedWith(StatusForbidden)

\* C5, witness: the first pair was authorized and resolved into a patch, the
\* gate denied the second pair, and the request is denied without a patch
C5_Witness ==
    /\ pc = "done" /\ IsCreate
    /\ Len(patches) = 1
    /\ \E j \in GateCallsOf(1) : calls[j].ok
    /\ \E j \in GateDenials : calls[j].pair = 2
    /\ DeniedWith(StatusForbidden) /\ response.patch = << >>

(***************************************************************************)
(* C6                                                                      *)
(***************************************************************************)
\* call j to the store follows a call in which the gate allowed the same pair
\* and the same reference name
AuthorizedBefore(j) ==
    \E k \in 1..(j - 1) :
        /\ calls[k].kind = "gate" /\ calls[k].ok
        /\ calls[k].pair = calls[j].pair
        /\ calls[k].credSpecName = calls[j].credSpecName

StoreCalls == {j \in 1..Len(calls) : calls[j].kind = "store"}

\* patch n carries the contents fetched by a call to the store that followed
\* the gate's allowing the pair of the patch
PatchAuthorized(n) ==
    \E j \in StoreCalls :
        /\ calls[j].ok /\ AuthorizedBefore(j)
        /\ patches[n].value = calls[j].value
        /\ patches[n].path \in
               {AnnotationsPath \o Pairs[calls[j].pair].contentsKey,
                AnnotationsPath \o jsonPatchEscaper(Pairs[calls[j].pair].contentsKey)}

\* C6, as stated: in a Create request the store is called for a pair, and a
\* patch carries its contents, only after the gate has allowed that pair's
\* reference name in the same request.
C6_FetchOnlyAfterAuthorization ==
    IsCreate => /\ \A j \in StoreCalls : AuthorizedBefore(j)
                /\ \A n \in 1..Len(patches) : PatchAuthorized(n)

\* C6, amended: that holds of the "/validate-mutate" and "/validate" handlers;
\* the "/mutate" handler never calls the gate, and fetches and patches the
\* contents of every named pair without an authorization in that request.
C6_FetchOnlyAfterAuthorizationUnlessMutate ==
    IsCreate =>
        IF endpoint = "/mutate"
        THEN \A j \in 1..Len(calls) : calls[j].kind = "store"
        ELSE /\ \A j \in StoreCalls : AuthorizedBefore(j)
             /\ \A n \in 1..Len(patches) : PatchAuthorized(n)

\* C6, witness: a patch of the "/validate-mutate" handler, after the gate
\* allowed the pair and the store resolved it
C6_Witness ==
    /\ pc = "done" /\ IsCreate /\ endpoint = "/validate-mutate"
    /\ Len(outcome.patch) >= 1
    /\ \E j \in StoreCalls : calls[j].ok /\ AuthorizedBefore(j)

(***************************************************************************)
(* C7                                                                      *)
(***************************************************************************)
StoreFailures == {j \in StoreCalls : ~calls[j].ok}

StoreFailureCode(answer) ==
    IF answer = "notfound" THEN StatusNotFound
    ELSE IF answer = "nofield" THEN StatusExpectationFailed
    ELSE StatusInternalServerError

\* C7: when the store fails for a pair of a Create request, the request is
\* denied without a patch, with NotFound (404) when the reference does not
\* exist, ExpectationFailed (417) when the stored spec has no usable contents,
\* and InternalError (500) for any other failure.
C7_StoreFailureCodes ==
    \A j \in StoreFailures :
        (IsCreate /\ HasEnded)
            => /\ pc = "done"
               /\ DeniedWith(StoreFailureCode(calls[j].answer))
               /\ response.patch = << >>

(***************************************************************************)
(* C8                                                                      *)
(***************************************************************************)
GateFailures ==
    {j \in 1..Len(calls) : calls[j].kind = "gate" /\ calls[j].failure # EmptyString}

Skipped(i) ==
    /\ GateCallsOf(i) = {} /\ StoreCallsOf(i) = {}
    /\ \A n \in 1..Len(patches) :
          patches[n].path \notin
              {AnnotationsPath \o Pairs[i].contentsKey,
               AnnotationsPath \o jsonPatchEscaper(Pairs[i].contentsKey)}
    /\ err.set => err.pair # i

\* C9, as stated: in a Create request a pair whose name key is absent or
\* empty is skipped: no gate call, no store fetch, no patch and no denial.
C9_UnnamedPairSkipped ==
    \A i \in 1..Len(Pairs) : (IsCreate /\ ~HasName(i)) => Skipped(i)

\* C9, amended: a pair whose name key is absent or empty and whose contents
\* key is absent is skipped; with the contents key present the pair denies
\* the request (Forbidden).
C9_UnnamedPairWithoutContentsSkipped ==
    \A i \in 1..Len(Pairs) :
        (IsCreate /\ ~HasName(i))
            => IF HasContents(i)
               THEN /\ GateCallsOf(i) = {} /\ StoreCallsOf(i) = {}
                    /\ (err.set /\ err.pair = i) => err.code = StatusForbidden
               ELSE Skipped(i)

\* C9, witness: the first pair has an empty name and is skipped, the second
\* pair is resolved, and the request is allowed with the second pair's patch
C9_Witness ==
    /\ pc = "done" /\ IsCreate /\ Inlining
    /\ Len(Pairs) >= 2
    /\ Pairs[1].nameKey \in DOMAIN Annotations /\ ~HasName(1) /\ ~HasContents(1)
    /\ Skipped(1)
    /\ Allowed /\ Len(outcome.patch) = 1

(***************************************************************************)
(* C10                                                                     *)
(***************************************************************************)
\* C10: no request ends in a panic, whatever the gate and the store answer;
\* every request gets a response that allows it, or denies it with a code.
C10_NoPanic ==
    /\ pc # "panicked"
    /\ pc = "done" => /\ response.set
                      /\ response.allowed \/ (err.set /\ err.code # 0)

(***************************************************************************)
(* C11                                                                     *)
(***************************************************************************)
\* C11: an Update request never calls the access review or the store,
\* whatever the annotations of the two pods, and carries no patch, allowed or
\* not.
C11_UpdateCallsNothing ==
    req.operation = "UPDATE"
        => /\ calls = << >>
           /\ patches = << >>
           /\ outcome.patch = << >> /\ ~outcome.hasPatch
           /\ response.patch = << >> /\ ~response.hasPatch

\* C11, witness: an allowed Update of a pod whose pod-level pair names a
\* credential spec, for which a Create calls the access review and the store
C11_Witness ==
    /\ pc = "done" /\ IsUpdate /\ endpoint = "/validate-mutate"
    /\ HasName(1)
    /\ Allowed /\ response.allowed
    /\ calls = << >> /\ ~response.hasPatch

(***************************************************************************)
(* C12                                                                     *)
(***************************************************************************)
\* no call was made for pair i, and when the request is denied by pair i
\* nothing is patched
PresetCheckedFirst(i) ==
    /\ GateCallsOf(i) = {} /\ StoreCallsOf(i) = {}
    /\ (err.set /\ err.pair = i)
          => /\ err.code = StatusForbidden
             /\ NothingGranted

\* C12, as stated: in a Create request a pair whose contents key is present
\* is refused before any call to the access review or the store for that
\* pair, and the request it denies has no patch, also when earlier pairs
\* were authorized and resolved.
C12_PresetCheckFirst ==
    \A i \in 1..Len(Pairs) : (IsCreate /\ HasContents(i)) => PresetCheckedFirst(i)

\* C12, amended: that holds of the handlers that build patches, "/mutate" and
\* "/validate-mutate"; the "/validate" handler asks the access review first
\* for a pair that has a reference name, and then fetches the contents to
\* compare them with the contents key.
C12_PresetCheckFirstWhenInlining ==
    \A i \in 1..Len(Pairs) :
        (IsCreate /\ HasContents(i))
            => IF Inlining THEN PresetCheckedFirst(i)
               ELSE /\ ~HasName(i) => PresetCheckedFirst(i)
                    /\ HasName(i) => \A j \in StoreCallsOf(i) : AuthorizedBefore(j)
                    /\ outcome.patch = << >> /\ response.patch = << >>

\* C12, witness: the first pair was authorized and resolved into a patch, the
\* second pair has a reference name and its contents key present, and the
\* request is denied by the second pair without a call for it and without a
\* patch
C12_Witness ==
    /\ pc = "done" /\ IsCreate /\ endpoint = "/validate-mutate"
    /\ Len(Pairs) >= 2 /\ HasName(2) /\ HasContents(2)
    /\ Len(patches) = 1
    /\ \E j \in GateCallsOf(1) : calls[j].ok
    /\ GateCallsOf(2) = {} /\ StoreCallsOf(2) = {}
    /\ err.pair = 2 /\ ~response.allowed /\ response.patch = << >>

(***************************************************************************)
(* C13                                                                     *)
(***************************************************************************)
\* op adds one entry of the annotation map: its path is the prefix followed
\* by the escaped contents key of a pair, one segment without "/"
AddsOneAnnotation(op) ==
    /\ op.op = "add"
    /\ \E i \in 1..Len(Pairs) :
          op.path = AnnotationsPath \o jsonPatchEscaper(Pairs[i].contentsKey)
    /\ \A n \in (Len(AnnotationsPath) + 1)..Len(op.path) : op.path[n] # "/"

\* C13: every patch operation of a handler is an "add" whose path is
\* "/metadata/annotations/" followed by one escaped contents key, a single
\* segment without an unescaped "/".
C13_PatchesAddOneAnnotation ==
    /\ \A n \in 1..Len(patches) : AddsOneAnnotation(patches[n])
    /\ \A n \in 1..Len(outcome.patch) : AddsOneAnnotation(outcome.patch[n])
    /\ \A n \in 1..Len(response.patch) : AddsOneAnnotation(response.patch[n])

(***************************************************************************)
(* C14                                                                     *)
(***************************************************************************)
\* the path segment seg is the escaped key: it has no "/", and decoding it
\* ("~1" to "/" first, then "~0" to "~") gives the key back
RoundTrip(key, seg) ==
    /\ seg = jsonPatchEscaper(key)
    /\ \A n \in 1..Len(seg) : seg[n] # "/"
    /\ jsonPointerUnescape(seg) = key

\* C14: for every contents key over characters that include "/" and "~",
\* the escaped key has no "/" and decodes to the key: the patch of "/mutate"
\* has the escaped key as its path segment, and the pod persisted with the
\* patch applied holds the patched value under the key itself.
C14_EscapeRoundTrip ==
    /\ endpoint = "/mutate"
          => \A n \in 1..Len(patches) :
                \E i \in Named :
                    /\ RoundTrip(Pairs[i].contentsKey, PatchSegment(patches[n]))
                    /\ pc = "done" => PatchedValues(response.patch)[Pairs[i].contentsKey]
                                          = patches[n].value
    /\ stored.exists
          => /\ DOMAIN stored.pod.annotations \subseteq TrackedKeys(stored.pod.containers)
             /\ \A i \in 1..(Len(stored.pod.containers) + 1) :
                   LET pair == iterateOverGMSAAnnotationPairs(stored.pod.containers)[i]
                   IN  MapGet(stored.pod.annotations, pair.nameKey) # EmptyString
                          => /\ pair.contentsKey \in DOMAIN stored.pod.annotations
                             /\ pair.contentsKey \in DOMAIN written
                             /\ stored.pod.annotations[pair.contentsKey]
                                    = written[pair.contentsKey]

\* C14, witness: a pod whose container name holds both "~" and "/" is
\* persisted with the contents under the contents key of the container
C14_Witness ==
    /\ stored.exists
    /\ \E i, j \in 1..Len(stored.pod.containers[1]) :
          stored.pod.containers[1][i] = "~" /\ stored.pod.containers[1][j] = "/"
    /\ stored.pod.containers[1] \o gMSAContainerSpecContentsAnnotationKeySuffix
          \in DOMAIN stored.pod.annotations

(***************************************************************************)
(* C15                                                                     *)
(***************************************************************************)
\* C15: an allowed Create has its patch (and patch type) set if and only if
\* at least one pair was resolved into a patch; with no pair resolved, as for
\* a pod without annotations, it is allowed with the patch omitted, not with
\* an empty patch.  The "/validate" handler resolves no pair into a patch.
C15_PatchSetIffResolved ==
    (IsCreate /\ HasReturned /\ Allowed)
        => /\ outcome.hasPatch = (outcome.patch # << >>)
           /\ outcome.hasPatch = (Inlining /\ \E j \in StoreCalls : calls[j].ok)
           /\ Len(outcome.patch) =
                  IF Inlining THEN Cardinality({j \in StoreCalls : calls[j].ok}) ELSE 0
           /\ pc = "done" => /\ response.allowed
                             /\ response.hasPatch = outcome.hasPatch
                             /\ response.patch = outcome.patch

\* C15, witness: a pod without annotations is allowed with the patch omitted
C15_Witness ==
    /\ pc = "done" /\ IsCreate /\ Inlining
    /\ DOMAIN Annotations = {}
    /\ Allowed /\ response.allowed
    /\ ~response.hasPatch /\ response.patch = << >>

(***************************************************************************)
(* C16                                                                     *)
(***************************************************************************)
\* C16: every response to a request, allowing or denying, for any operation
\* and any error, carries the UID of the request.
C16_ResponseCarriesUID ==
    pc = "done" => /\ response.set
                   /\ response.uid = req.uid
                   /\ response.uid \in RequestUIDs

\* C16, witness: a denied request with the second UID is answered with it
C16_Witness ==
    /\ pc = "done" /\ err.set /\ ~response.allowed
    /\ req.uid = <<"uid-2">> /\ response.uid = <<"uid-2">>

(***************************************************************************)
(* C17                                                                     *)
(***************************************************************************)
DenialCodes ==
    {StatusBadRequest, StatusForbidden, StatusNotFound, StatusExpectationFailed,
     StatusInternalServerError}

\* C17: every denied response has allowed false, the text of the error as its
\* message, and the code of the error as its code, one of 400, 403, 404, 417
\* and 500, never 0.
C17_DenialCarriesCode ==
    (pc = "done" /\ err.set)
        => /\ ~response.allowed
           /\ response.message = err.msg
           /\ response.code = err.code
           /\ response.code \in DenialCodes

(***************************************************************************)
(* C18                                                                     *)
(***************************************************************************)
\* the request is denied with BadRequest before any call
RefusedAsBadRequest ==
    /\ DeniedWith(StatusBadRequest)
    /\ calls = << >>
    /\ NothingGranted

\* an Update of a pod that decodes, with an old object that does not
UndecodableOldPod ==
    req.kind = "Pod" /\ req.objectOK /\ req.operation = "UPDATE" /\ ~req.oldObjectOK

\* C18, as stated: a request whose kind is not "Pod" is denied with BadRequest
\* (400) before any decoding, and a request whose object, or for an Update
\* whose old object, does not decode as a pod is denied with BadRequest; no
\* call is made to the access review or the store.
C18_NotAPodOrUndecodable ==
    HasReturned
        => /\ req.kind # "Pod"
                 => RefusedAsBadRequest /\ err.msg = NotAPodError(req.kind).msg
           /\ (req.kind = "Pod" /\ ~req.objectOK)
                 => RefusedAsBadRequest /\ err.msg = unmarshallPodError.msg
           /\ UndecodableOldPod
                 => RefusedAsBadRequest /\ err.msg = unmarshallPodError.msg

\* C18, amended: the old object is decoded by "/validate" and
\* "/validate-mutate" only; "/mutate" allows every Update of a pod that
\* decodes without reading the old object.
C18_NotAPodOrUndecodableUnlessMutate ==
    HasReturned
        => /\ req.kind # "Pod"
                 => RefusedAsBadRequest /\ err.msg = NotAPodError(req.kind).msg
           /\ (req.kind = "Pod" /\ ~req.objectOK)
                 => RefusedAsBadRequest /\ err.msg = unmarshallPodError.msg
           /\ UndecodableOldPod
                 => IF endpoint = "/mutate"
                    THEN Allowed /\ calls = << >> /\ outcome.patch = << >>
                    ELSE RefusedAsBadRequest /\ err.msg = unmarshallPodError.msg

\* C18, witness: a request that is not a pod, with an object that does not
\* decode, is denied for its kind
C18_Witness ==
    /\ pc = "done" /\ req.kind = "Deployment" /\ ~req.objectOK
    /\ DeniedWith(StatusBadRequest) /\ ~response.allowed
    /\ err.msg = NotAPodError("Deployment").msg

(***************************************************************************)
(* C19                                                                     *)
(***************************************************************************)
\* C19: a request for a pod that decodes, whose operation is neither Create
\* nor Update, is denied with BadRequest (400), without a patch and without
\* a call to the access review or the store.
C19_OtherOperationBadRequest ==
    (HasReturned /\ req.kind = "Pod" /\ req.objectOK
        /\ req.operation \notin {"CREATE", "UPDATE"})
        => /\ DeniedWith(StatusBadRequest)
           /\ err.msg = UnexpectedOperationError(req.operation).msg
           /\ calls = << >>
           /\ NothingGranted

\* C19, witness: a Delete of a pod is denied
C19_Witness ==
    /\ pc = "done" /\ req.kind = "Pod" /\ req.objectOK /\ req.operation = "DELETE"
    /\ DeniedWith(StatusBadRequest) /\ ~response.allowed /\ calls = << >>

(***************************************************************************)
(* C20                                                                     *)
(***************************************************************************)
\* C20: for a pod with k containers the resolver gives k + 1 pairs: the
\* pod-level pair with the fixed keys, then one pair per container, whose
\* keys are the container name followed by the fixed suffixes; every name key
\* is its contents key followed by "-name"; a Create handler that does not
\* stop at an error visits each of the k + 1 pairs once.
C20_ResolverPairs ==
    (req.kind = "Pod" /\ req.objectOK)
        => /\ Len(Pairs) = Len(req.pod.containers) + 1
           /\ Pairs[1] = [nameKey |-> gMSAPodSpecNameAnnotationKey,
                          contentsKey |-> gMSAPodSpecContentsAnnotationKey]
           /\ \A i \in 1..Len(req.pod.containers) :
                 /\ Pairs[i + 1].nameKey =
                        req.pod.containers[i] \o gMSAContainerSpecNameAnnotationKeySuffix
                 /\ Pairs[i + 1].contentsKey =
                        req.pod.containers[i] \o gMSAContainerSpecContentsAnnotationKeySuffix
           /\ \A i \in 1..Len(Pairs) : Pairs[i].nameKey = Pairs[i].contentsKey \o <<"-name">>
           /\ IsCreate => idx \in 1..(Len(req.pod.containers) + 2)
           /\ (IsCreate /\ HasReturned /\ (~err.set \/ endpoint # "/validate-mutate"))
                 => idx = Len(req.pod.containers) + 2

\* C20, witness: a Create of a pod with one container is allowed after two
\* pairs were visited, both resolved into a patch
C20_Witness ==
    /\ pc = "done" /\ IsCreate /\ Inlining
    /\ Len(req.pod.containers) = 1
    /\ idx = 3
    /\ Allowed /\ Len(outcome.patch) = 2

(***************************************************************************)
(* C21                                                                     *)
(***************************************************************************)
\* the patches that write the contents key of pair i
PatchesOf(i) ==
    {n \in 1..Len(patches) :
        patches[n].path \in
            {AnnotationsPath \o Pairs[i].contentsKey,
             AnnotationsPath \o jsonPatchEscaper(Pairs[i].contentsKey)}}

\* C21: in a Create request every pair with a reference name causes at most
\* one call to the access review and at most one call to the store, no call
\* follows a failed or refused one, and every pair resolved into a patch
\* has a call to the store of its own: pairs that name the same reference
\* are fetched one by one, and a new request starts without any call made.
C21_OneCallPerPair ==
    /\ (IsCreate /\ calls # << >>)
          => /\ \A j, k \in 1..Len(calls) :
                   (calls[j].kind = calls[k].kind /\ calls[j].pair = calls[k].pair)
                       => j = k
             /\ \A j \in 1..Len(calls) :
                   /\ calls[j].pair \in 1..Len(Pairs)
                   /\ HasName(calls[j].pair)
                   /\ calls[j].credSpecName = Annotations[Pairs[calls[j].pair].nameKey]
                   /\ ~calls[j].ok => j = Len(calls)
    /\ IsCreate
          => /\ Len(patches) <= Cardinality({j \in StoreCalls : calls[j].ok})
             /\ (Inlining /\ DistinctPairs)
                   => \A i \in 1..Len(Pairs) :
                         PatchesOf(i) # {} => \E j \in StoreCallsOf(i) : calls[j].ok
    /\ pc = "idle" => calls = << >>

\* C21, witness: two pairs name the same reference, and each was fetched by
\* a call of its own
C21_Witness ==
    /\ pc = "done" /\ IsCreate /\ endpoint = "/mutate"
    /\ Len(Pairs) >= 2 /\ HasName(1)
    /\ Annotations[Pairs[1].nameKey] = MapGet(Annotations, Pairs[2].nameKey)
    /\ Cardinality(StoreCallsOf(1)) = 1 /\ Cardinality(StoreCallsOf(2)) = 1
    /\ Len(calls) = 2 /\ Len(outcome.patch) = 2

(***************************************************************************)
(* C23                                                                     *)
(***************************************************************************)
\* what "/validate" requires of pair i: with a reference name, the access
\* review allowed it and the contents key, when present, holds the contents
\* the store has for the reference; without one, the contents key is absent
ValidPair(i) ==
    IF HasName(i)
    THEN /\ \E j \in GateCallsOf(i) : calls[j].ok
         /\ HasContents(i)
               => \E j \in StoreCallsOf(i) :
                     calls[j].ok /\ calls[j].contents = Annotations[Pairs[i].contentsKey]
    ELSE ~HasContents(i)

\* C23: on "/validate" a Create request is allowed only if every pair is
\* valid; contents that differ from the store's, and contents without a
\* reference name, are denied with Forbidden (403).
C23_ValidateCreate ==
    (endpoint = "/validate" /\ IsCreate /\ HasReturned)
        => /\ Allowed => \A i \in 1..Len(Pairs) : ValidPair(i)
           /\ ~Allowed
                 => /\ err.set /\ err.pair \in 1..Len(Pairs)
                    /\ ~ValidPair(err.pair)
                    /\ \A i \in 1..(err.pair - 1) : ValidPair(i)
                    /\ (~HasName(err.pair)
                          \/ \E j \in StoreCallsOf(err.pair) : calls[j].ok)
                          => err.code = StatusForbidden

\* C23, witness: a pod whose contents key holds the contents of the store
\* for its reference name is allowed
C23_Witness ==
    /\ pc = "done" /\ endpoint = "/validate" /\ IsCreate
    /\ HasName(1) /\ HasContents(1) /\ Annotations[Pairs[1].contentsKey] = SpecXml
    /\ ValidPair(1)
    /\ Allowed /\ response.allowed

(***************************************************************************)
(* C24                                                                     *)
(***************************************************************************)
\* the calls are made pair after pair, the access review of a pair before its
\* fetch
CallsInResolverOrder ==
    \A j, k \in 1..Len(calls) :
        j < k => \/ calls[j].pair < calls[k].pair
                 \/ /\ calls[j].pair = calls[k].pair
                    /\ calls[j].kind = "gate" /\ calls[k].kind = "store"

\* C24: the pairs of a Create request are processed one after the other in
\* resolver order, and the processing stops at the first denial: the error
\* of the request is that of the first pair that fails, every call before it
\* succeeded, and no call and no patch is made for a later pair.
C24_FirstDenialWins ==
    IsCreate
        => /\ CallsInResolverOrder
           /\ \A j \in 1..Len(calls) : calls[j].pair < idx
           /\ \A j \in 1..Len(calls) :
                 ~calls[j].ok => /\ j = Len(calls)
                                 /\ err.set => err.pair = calls[j].pair
                                 /\ HasReturned => err.set
           /\ err.set
                 => /\ err.pair \in 1..Len(Pairs)
                    /\ \A j \in 1..Len(calls) :
                          /\ calls[j].pair <= err.pair
                          /\ calls[j].pair < err.pair => calls[j].ok
                    /\ DistinctPairs
                          => \A i \in err.pair..Len(Pairs) : PatchesOf(i) = {}
                    /\ HasReturned => /\ ~outcome.set
                                      /\ pc = "done" => response.message = err.msg

\* C24, witness: the store fails for the first pair, the second pair has a
\* reference name, and the request is denied as the first pair is, without a
\* call for the second
C24_Witness ==
    /\ pc = "done" /\ IsCreate /\ Inlining
    /\ Len(Pairs) >= 2 /\ HasName(1) /\ HasName(2) /\ ~HasContents(2)
    /\ \E j \in StoreCallsOf(1) : calls[j].answer = "notfound"
    /\ GateCallsOf(2) = {} /\ StoreCallsOf(2) = {}
    /\ err.pair = 1 /\ DeniedWith(StatusNotFound)

(***************************************************************************)
(* C25                                                                     *)
(***************************************************************************)
IsResolved(c) == c.kind = "store" /\ c.ok

\* the calls that resolved a pair, in the order they were made
Resolutions == SelectSeq(calls, IsResolved)

\* the patch a handler builds from the call c that resolved a pair
PatchOfResolution(c) ==
    PatchOp(AnnotationsPath
                \o (IF endpoint = "/mutate"
                    THEN jsonPatchEscaper(Pairs[c.pair].contentsKey)
                    ELSE Pairs[c.pair].contentsKey),
            c.value)

\* the contents keys of a pod: of the pod, then of its containers in order
ContentsKeysInOrder ==
    <<gMSAPodSpecContentsAnnotationKey>>
        \o [i \in 1..Len(req.pod.containers) |->
               req.pod.containers[i] \o gMSAContainerSpecContentsAnnotationKeySuffix]

\* the place in that order of the key that op writes
PlaceOf(op) ==
    CHOOSE i \in 1..Len(ContentsKeysInOrder) :
        op.path \in {AnnotationsPath \o ContentsKeysInOrder[i],
                     AnnotationsPath \o jsonPatchEscaper(ContentsKeysInOrder[i])}

C26_GateArguments ==
    IsCreate
        => \A j \in 1..Len(calls) :
              calls[j].kind = "gate"
                  => /\ calls[j].serviceAccount = req.pod.serviceAccountName
                     /\ calls[j].namespace = req.namespace
                     /\ calls[j].credSpecName
                           = MapGet(Annotations, Pairs[calls[j].pair].nameKey)

(***************************************************************************)
(* C28                                                                     *)
(***************************************************************************)
\* a tracked annotation of the new pod differs from that of the old pod
TrackedChange ==
    \E i \in 1..Len(Pairs) :
        \/ MapGet(req.pod.annotations, Pairs[i].nameKey)
              # MapGet(req.oldPod.annotations, Pairs[i].nameKey)
        \/ MapGet(req.pod.annotations, Pairs[i].contentsKey)
              # MapGet(req.oldPod.annotations, Pairs[i].contentsKey)

\* C28: on the mutating endpoint every Update request for a decodable pod is
\* allowed with no patch, without decoding the old object and without any
\* comparison or call; the validating endpoint is the one that refuses an
\* Update that changes a tracked annotation.
C28_MutateAllowsUpdates ==
    (req.kind = "Pod" /\ req.objectOK /\ req.operation = "UPDATE" /\ HasReturned)
        => /\ endpoint = "/mutate"
                 => /\ Allowed /\ ~outcome.hasPatch /\ outcome.patch = << >>
                    /\ calls = << >> /\ patches = << >>
                    /\ pc = "done"
                          => /\ response.allowed /\ ~response.hasPatch
                             /\ response.message = EmptyString
           /\ (endpoint = "/validate" /\ req.oldObjectOK /\ TrackedChange)
                 => DeniedWith(StatusForbidden)

\* C28, witness: the mutating endpoint has allowed an Update whose old object
\* cannot be decoded, and one that changes a tracked annotation
C28_Witness ==
    /\ pc = "done" /\ endpoint = "/mutate"
    /\ req.kind = "Pod" /\ req.objectOK /\ req.operation = "UPDATE"
    /\ response.allowed /\ ~response.hasPatch
    /\ ~req.oldObjectOK \/ TrackedChange

(***************************************************************************)
(* C30                                                                     *)
(***************************************************************************)
\* the keys an Update compares, in the order they are compared
CheckedKeys ==
    [j \in 1..(2 * Len(Pairs)) |->
        IF j % 2 = 1 THEN Pairs[(j + 1) \div 2].nameKey
        ELSE Pairs[j \div 2].contentsKey]

\* the key is not the same in the old pod and in the new one: present in one
\* only, or present in both with different values
Changed(key) ==
    \/ (key \in DOMAIN req.pod.annotations) # (key \in DOMAIN req.oldPod.annotations)
    \/ /\ key \in DOMAIN req.pod.annotations
       /\ key \in DOMAIN req.oldPod.annotations
       /\ req.pod.annotations[key] # req.oldPod.annotations[key]

UpdateChangedError(key) ==
    <<"cannot update an existing pod's gMSA annotation (annotation ">>
        \o key \o <<" changed)">>

\* the Update request has been decided by validateUpdateRequest
UpdateDecided ==
    /\ IsUpdate /\ HasReturned
    /\ endpoint \in {"/validate", "/validate-mutate"}

\* C30: an Update request checks the name key and the content key of the
\* pod-level pair and of every container of the new pod, and nothing else:
\* it is allowed when none of them changed, whatever else changed, and is
\* otherwise denied with a message that names the first changed key in
\* resolver order, the name key of a pair before its content key.
C30_UpdateChecks ==
    UpdateDecided
        => LET changed == {j \in 1..Len(CheckedKeys) : Changed(CheckedKeys[j])}
               first == CHOOSE j \in changed : \A k \in changed : j <= k
           IN  IF changed = {} THEN Allowed /\ ~outcome.hasPatch
               ELSE /\ DeniedWith(StatusForbidden)
                    /\ err.msg = UpdateChangedError(CheckedKeys[first])

(***************************************************************************)
(* C27                                                                     *)
(***************************************************************************)
\* "/validate" is asked about the Create request that "/mutate" allowed, with
\* the patch of "/mutate" applied
ValidatingPatched == endpoint = "/validate" /\ IsCreate

\* the contents "/mutate" fetched for pair i and patched into the pod
WrittenFor(i) == MapGet(written, Pairs[i].contentsKey)

\* every fetch of "/validate" returned what the fetch of "/mutate" returned
StoreUnchanged ==
    \A j \in StoreCalls :
        calls[j].ok /\ calls[j].contents = WrittenFor(calls[j].pair)

\* the service account is authorized for every reference name
AuthorizedForAll ==
    \A i \in 1..Len(Pairs) : HasName(i) => \E j \in GateCallsOf(i) : calls[j].ok

\* C27: when "/mutate" has allowed a Create request and its patch is applied,
\* the pod "/validate" receives holds, for every reference name, the contents
\* "/mutate" fetched; if the store answers the same again, "/validate" allows
\* the pod if and only if the service account is authorized for every
\* reference name, and denies it with Forbidden (403) otherwise; if the store
\* returns other contents for a reference, "/validate" denies the pod with
\* Forbidden.
C27_MutateThenValidate ==
    ValidatingPatched
        => /\ \A i \in 1..Len(Pairs) :
                 IF HasName(i)
                 THEN HasContents(i) /\ Annotations[Pairs[i].contentsKey] = WrittenFor(i)
                 ELSE ~HasContents(i)
           /\ (HasReturned /\ StoreUnchanged)
                 => /\ Allowed <=> AuthorizedForAll
                    /\ ~Allowed => DeniedWith(StatusForbidden)
           /\ \A j \in StoreCalls :
                 (calls[j].ok /\ calls[j].contents # WrittenFor(calls[j].pair))
                     => DeniedWith(StatusForbidden) /\ err.pair = calls[j].pair

\* C27, witness: "/validate" has allowed the pod patched by "/mutate", after
\* an access review and a fetch that returned the contents of the patch
C27_Witness ==
    /\ pc = "done" /\ ValidatingPatched
    /\ HasName(1) /\ WrittenFor(1) = SpecXml
    /\ Cardinality(GateCallsOf(1)) = 1 /\ Cardinality(StoreCallsOf(1)) = 1
    /\ StoreUnchanged /\ AuthorizedForAll
    /\ Allowed /\ response.allowed

(***************************************************************************)
(* C29                                                                     *)
(***************************************************************************)
\* C29: stop before any start returns "webhook server not started yet" and
\* changes nothing, start on a webhook whose server is set returns "webhook
\* already started" and creates no server, so that whatever the sequence and
\* the interleaving of the calls at most one HTTP server is ever created and
\* a stopped webhook is never started again.
C29_ServerLifecycle ==
    /\ Len(servers) <= 1
    /\ \A c \in Callers :
          /\ callers[c].result = ErrNotStarted => callers[c].made = 0
          /\ callers[c].result = ErrAlreadyStarted => callers[c].made = 0
          /\ callers[c].pc = "listening" => server = callers[c].made
    /\ \A n \in 1..Len(servers) :
          servers[n] = "closed"
              => \A c \in Callers : callers[c].pc # "starting"

(***************************************************************************)
(* C22                                                                     *)
(***************************************************************************)
\* the answers the cluster gave to the calls c
AnswerOfGate(c) ==
    CHOOSE sar \in SarAnswers :
        GateCall(c.pair, c.serviceAccount, c.namespace, c.credSpecName, sar) = c

AnswerOfStore(c) ==
    CHOOSE get \in GetAnswers : StoreCall(c.pair, c.credSpecName, get, c.value) = c

\* the answers goroutine g received for pair i; a call that was not made has
\* no answer, and any answer stands for it
AnswersFor(g, i) ==
    LET gate == {j \in 1..Len(g.calls) : g.calls[j].kind = "gate" /\ g.calls[j].pair = i}
        store == {j \in 1..Len(g.calls) : g.calls[j].kind = "store" /\ g.calls[j].pair = i}
    IN  [sar |-> IF gate = {} THEN CHOOSE sar \in SarAnswers : TRUE
                 ELSE AnswerOfGate(g.calls[CHOOSE j \in gate : TRUE]),
         get |-> IF store = {} THEN CHOOSE get \in GetAnswers : TRUE
                 ELSE AnswerOfStore(g.calls[CHOOSE j \in store : TRUE])]

\* the Create handler of the endpoint of g run from pair i to its end on the
\* request of g, with the answers g received and nothing else running
RECURSIVE HandledAloneFrom(_, _, _, _, _)
HandledAloneFrom(g, i, p, e, c) ==
    LET a == AnswersFor(g, i)
        r == IF g.endpoint = "/validate"
             THEN validateCreatePair(g.req.pod, g.req.namespace, i, e, c, a.sar, a.get)
             ELSE IF g.endpoint = "/mutate"
             THEN mutateCreatePair(g.req.pod, i, p, e, c, a.get)
             ELSE validateAndInlineSingleGMSASpec(g.req.pod, i, p, c, a.sar, a.get)
    IN  IF i > Len(iterateOverGMSAAnnotationPairs(g.req.pod.containers))
        THEN StepResult(p, e, c, FALSE)
        ELSE IF g.endpoint = "/validate-mutate" /\ (r.panicked \/ r.err.set)
        THEN r
        ELSE HandledAloneFrom(g, i + 1,
                              IF g.endpoint = "/validate" THEN p ELSE r.patches,
                              r.err, r.calls)

\* the outcome of the request of g handled alone
HandledAlone(g) ==
    LET d == IF g.endpoint = "/validate-mutate" THEN validateAndMutate(g.req)
             ELSE IF g.endpoint = "/validate" THEN validateOrMutate(g.req, "VALIDATE")
             ELSE validateOrMutate(g.req, "MUTATE")
        h == HandledAloneFrom(g, 1, << >>, NoError, << >>)
        o == IF h.err.set \/ h.panicked THEN NoOutcome ELSE AllowedResponse(h.patches)
    IN  IF d.next = "return"
        THEN [err |-> d.err, outcome |-> d.outcome, calls |-> << >>,
              panicked |-> FALSE,
              response |-> httpRequestToAdmissionResponse(g.req, g.endpoint,
                                                          d.err, d.outcome)]
        ELSE [err |-> h.err, outcome |-> o, calls |-> h.calls,
              panicked |-> h.panicked,
              response |-> httpRequestToAdmissionResponse(g.req, g.endpoint,
                                                          h.err, o)]

\* the outcome of g so far is that of its request handled alone
AsIfAlone(g) ==
    /\ g.pc \in {"return", "done"}
          => /\ g.err = HandledAlone(g).err
             /\ g.outcome = HandledAlone(g).outcome
             /\ g.calls = HandledAlone(g).calls
             /\ ~HandledAlone(g).panicked
    /\ g.pc = "done" => g.response = HandledAlone(g).response
    /\ g.pc = "panicked" => HandledAlone(g).panicked /\ g.calls = HandledAlone(g).calls

\* C22: whatever the interleaving of the steps of the requests handled
\* concurrently, the outcome of each request, and the calls made for it, are
\* those of the request handled alone with the same answers of the access
\* review and of the store: no state is shared between requests, and two
\* requests that name the same credential spec are each authorized and
\* fetched by calls of their own.
C22_RequestsIndependent == AsIfAlone(Running) /\ AsIfAlone(other)

\* C22, witness: two Create requests that name the same credential spec are
\* in flight on the same endpoint; each made its own calls, the store
\* answered one and failed the other, and one is allowed with its patch
\* while the other is denied
C22_Witness ==
    /\ pc = "done" /\ other.pc = "return"
    /\ endpoint = "/validate-mutate" /\ other.endpoint = "/validate-mutate"
    /\ req = other.req /\ IsCreate /\ HasName(1)
    /\ Len(calls) = 2 /\ Len(other.calls) = 2
    /\ calls[2].kind = "store" /\ other.calls[2].kind = "store"
    /\ calls[2].credSpecName = other.calls[2].credSpecName
    /\ response.allowed /\ Len(response.patch) = 1
    /\ other.err.set /\ other.err.code = StatusNotFound

====
